---------------------------- MODULE Spec2Model ----------------------------
(***************************************************************************)
(* A model of kaunta's analytics core: the CLI stats commands              *)
(* (internal/cli/analytics.go), the website table operations               *)
(* (internal/cli/db.go), the HTTP aggregation handlers                     *)
(* (internal/handlers) and the live-stats polling loop.                    *)
(***************************************************************************)
EXTENDS Integers, Sequences, FiniteSets, TLC

VARIABLES
    \* ---- the CLI process running runStatsLive ----
    pc,               \* position of the CLI process
    interval,         \* polling period in seconds, after line 358-360
    format,           \* output format, after the default of line 362-364
    sigRegistered,    \* signal.Notify was called on sigChan
    sigBuf,           \* signals waiting in sigChan (capacity 1)
    ticker,           \* "none" | "running" | "stopped"
    tickBuf,          \* ticks waiting in the ticker channel (capacity 1)
    ticksFired,       \* ticks the ticker produced so far
    deadlineExpired,  \* the 24h context of line 373 has expired
    inFlight,         \* calls of getLiveStatsFn that have not returned yet
    fetchCount,       \* calls of getLiveStatsFn started so far
    renderCount,      \* snapshots written by outputLiveJSON / outputLiveTerm
    failStreak,       \* consecutive tick fetches that returned an error
    liveData,         \* "unset" | "nil" | "data": the last fetch's result
    ret,              \* "none" | "nil" | an error tag: what runStatsLive returned
    exitCause,        \* "none" | "signal" | "lookup" | "connect" | "panic"
    \* ---- the store ----
    websites,         \* rows of table website
    sessions,         \* rows of table session, by session_id
    events,           \* rows of table website_event, in insertion order
    now,              \* the store's clock, in minutes
    \* ---- the last single-shot operation ----
    last              \* record describing the last command, handler or query

liveVars == <<pc, interval, format, sigRegistered, sigBuf, ticker, tickBuf,
              ticksFired, deadlineExpired, inFlight, fetchCount, renderCount,
              failStreak, liveData, ret, exitCause>>
storeVars == <<websites, sessions, events, now>>
vars == <<liveVars, storeVars, last>>

NULL == "<NULL>"

(***************************************************************************)
(* Bounds of the model.                                                    *)
(***************************************************************************)
MaxTicks == 3
MaxWebsites == 2
MaxEvents == 6
MaxElapsed == 2

(***************************************************************************)
(* Input sets.                                                             *)
(***************************************************************************)
Domains == {"a.com", "A.com", "b.com"}
Intervals == {0, 1, 2, 5, 60, 61}
LiveFormats == {"", "text", "json"}
DbStates == {"open", "closed", "unreachable"}

\* strings.ToLower / SQL LOWER() on the domains of the model
Lower(d) ==
    CASE d = "A.com" -> "a.com"
      [] OTHER -> d

(***************************************************************************)
(* Table website.                                                          *)
(***************************************************************************)
WebsiteRow(id, domain, deleted) == [id |-> id, domain |-> domain, deleted |-> deleted]

\* (mutant) the lookup without its deleted_at filter
GetWebsiteIDByDomainRowsAnyState(domain) ==
    {r \in websites : r.domain = domain}

\* SELECT website_id FROM website WHERE domain = $1 AND deleted_at IS NULL
GetWebsiteIDByDomainRows(domain) ==
    {r \in websites : r.domain = domain /\ ~r.deleted}

\* GetWebsiteIDByDomain: the set of outcomes QueryRow(...).Scan can produce
GetWebsiteIDByDomain(domain, dbOk) ==
    IF ~dbOk THEN {[id |-> 0, err |-> "failed to query website"]}
    ELSE IF GetWebsiteIDByDomainRows(domain) = {}
         THEN {[id |-> 0, err |-> "website not found"]}
         ELSE {[id |-> r.id, err |-> "nil"] : r \in GetWebsiteIDByDomainRows(domain)}

(***************************************************************************)
(* Tables session and website_event, and the aggregate queries of          *)
(* analytics.go.                                                           *)
(***************************************************************************)
\* event_type = 1: a pageview
PageView == 1
\* INTERVAL '1 day', in the clock's minutes
MinutesPerDay == 1440

SessionIds == {1, 2, 3}
EventTypes == {1, 2}

SessionRow(country, region, city, browser, device, os) ==
    [country |-> country, region |-> region, city |-> city, browser |-> browser,
     device |-> device, os |-> os]

EventRow(site, session, etype, path, referrer, at) ==
    [site |-> site, session |-> session, etype |-> etype, path |-> path,
     referrer |-> referrer, at |-> at]

\* a float64 result, kept exact as numerator and denominator
Frac(n, d) == [n |-> n, d |-> d]
FracZero == Frac(0, 1)
FracIsZero(f) == f.n = 0

Min2(a, b) == IF a <= b THEN a ELSE b

RECURSIVE SumOver(_, _)
SumOver(S, f) ==
    IF S = {} THEN 0
    ELSE LET x == CHOOSE y \in S : TRUE IN f[x] + SumOver(S \ {x}, f)

\* COALESCE(v, dflt)
Coalesce(v, dflt) == IF v = NULL THEN dflt ELSE v

\* e.created_at >= NOW() - INTERVAL '1 day' * $2
InDays(e, days) == e.at >= now - days * MinutesPerDay

\* e.created_at >= NOW() - INTERVAL 'm minutes'
InMinutes(e, m) == e.at >= now - m

\* (mutant) the event_type condition is missing
PageviewsAnyType(site, days) ==
    {i \in 1..Len(events) : events[i].site = site /\ InDays(events[i], days)}

\* WHERE e.website_id = $1 AND e.created_at >= NOW() - INTERVAL '1 day' * $2
\* AND e.event_type = 1
Pageviews(site, days) ==
    {i \in 1..Len(events) :
        /\ events[i].site = site
        /\ InDays(events[i], days)
        /\ events[i].etype = PageView}

\* WHERE e.website_id = $1 AND e.created_at >= NOW() - INTERVAL 'm minutes'
\* AND e.event_type = 1
RecentPageviews(site, m) ==
    {i \in 1..Len(events) :
        /\ events[i].site = site
        /\ InMinutes(events[i], m)
        /\ events[i].etype = PageView}

SessionsOf(idx) == {events[i].session : i \in idx}

\* ORDER BY <count> DESC LIMIT <limit>: every order of the groups that is
\* non-increasing in the count, cut to the limit (ties in storage order, which
\* is not specified)
RECURSIVE AllOrders(_, _)
AllOrders(keys, cnt) ==
    IF keys = {} THEN {<<>>}
    ELSE UNION {{<<k>> \o rest : rest \in AllOrders(keys \ {k}, cnt)} :
                  k \in {x \in keys : \A y \in keys : cnt[x] >= cnt[y]}}

\* (mutant) the ORDER BY clause is missing: the groups come in any order
OrderedTopUnordered(keys, cnt, limit) ==
    {SubSeq(s, 1, Min2(limit, Cardinality(keys))) : s \in AllOrders(keys, [k \in keys |-> 0])}

OrderedTop(keys, cnt, limit) ==
    {SubSeq(s, 1, Min2(limit, Cardinality(keys))) : s \in AllOrders(keys, cnt)}

\* the subquery pv of lines 911-918: pageviews of a session in the window
PageviewCount(site, days, sid) ==
    Cardinality({i \in Pageviews(site, days) : events[i].session = sid})

\* lines 909, 990: COUNT(DISTINCT bounced)::float / NULLIF(COUNT(DISTINCT all), 0)
\* * 100, scanned into a NullFloat64 and read as 0 when NULL
BounceRateOf(site, days, idx) ==
    LET S == SessionsOf(idx)
        B == {sid \in S : PageviewCount(site, days, sid) = 1}
    IN IF S = {} THEN FracZero ELSE Frac(100 * Cardinality(B), Cardinality(S))

\* (mutant) the subquery pv counts the pageviews of the session on this path only
calculatePageBounceRatePerPath(site, path, days, ok) ==
    IF ~ok THEN FracZero
    ELSE LET idx == {i \in Pageviews(site, days) : events[i].path = path}
             S == SessionsOf(idx)
             B == {sid \in S : Cardinality({i \in idx : events[i].session = sid}) = 1}
         IN IF S = {} THEN FracZero ELSE Frac(100 * Cardinality(B), Cardinality(S))

\* calculatePageBounceRate (906-931): a failed query leaves the NullFloat64
\* invalid and 0 is returned
calculatePageBounceRate(site, path, days, ok) ==
    IF ~ok THEN FracZero
    ELSE BounceRateOf(site, days,
                      {i \in Pageviews(site, days) : events[i].path = path})

\* EXTRACT(EPOCH FROM (MAX(created_at) - MIN(created_at))) of one session, seconds
SpanSeconds(idx, sid) ==
    LET T == {events[i].at : i \in {j \in idx : events[j].session = sid}}
        hi == CHOOSE t \in T : \A u \in T : t >= u
        lo == CHOOSE t \in T : \A u \in T : t <= u
    IN 60 * (hi - lo)

\* SELECT AVG(engagement_time) over the sessions of idx; NULL (read as 0) when
\* there is none
AvgSpan(idx) ==
    LET S == SessionsOf(idx)
    IN IF S = {} THEN FracZero
       ELSE Frac(SumOver(S, [sid \in S |-> SpanSeconds(idx, sid)]), Cardinality(S))

\* calculatePageAvgTime (933-955)
calculatePageAvgTime(site, path, days, ok) ==
    IF ~ok THEN FracZero
    ELSE AvgSpan({i \in Pageviews(site, days) : events[i].path = path})

\* GetTopPages (512-563): the possible results, each [err, pages]
GetTopPages(site, days, limit, ok, subOk) ==
    IF ~ok THEN {[err |-> "failed to query top pages", pages |-> <<>>]}
    ELSE LET idx == {i \in Pageviews(site, days) : events[i].path # NULL}
             paths == {events[i].path : i \in idx}
             Cnt(p) == Cardinality({i \in idx : events[i].path = p})
             Stat(p) == [Path |-> p,
                         Pageviews |-> Cnt(p),
                         UniqueVisitors |->
                             Cardinality(SessionsOf({i \in idx : events[i].path = p})),
                         BounceRate |-> calculatePageBounceRate(site, p, days, subOk),
                         AvgTime |-> calculatePageAvgTime(site, p, days, subOk)]
         IN {[err |-> "nil", pages |-> [i \in 1..Len(s) |-> Stat(s[i])]] :
                s \in OrderedTop(paths, [k \in paths |-> Cnt(k)], limit)}

\* the switch of lines 574-587 (and 961-979): the grouped column, or NULL for a
\* dimension the switch does not know
CliDimensions == {"country", "browser", "device", "referrer", "os"}

DimColumn(e, dimension) ==
    CASE dimension = "country" -> Coalesce(sessions[e.session].country, "Unknown")
      [] dimension = "browser" -> Coalesce(sessions[e.session].browser, "Unknown")
      [] dimension = "device" -> Coalesce(sessions[e.session].device, "Unknown")
      [] dimension = "os" -> Coalesce(sessions[e.session].os, "Unknown")
      [] dimension = "referrer" -> Coalesce(e.referrer, "Direct / None")
      [] OTHER -> NULL

\* calculateDimensionBounceRate (957-1013)
calculateDimensionBounceRate(site, dimension, value, days, ok) ==
    IF dimension \notin CliDimensions \/ ~ok THEN FracZero
    ELSE BounceRateOf(site, days,
                      {i \in Pageviews(site, days) :
                          DimColumn(events[i], dimension) = value})

\* GetBreakdownStats (565-644): the possible results, each [err, items]
GetBreakdownStats(site, dimension, days, limit, ok, subOk) ==
    IF dimension \notin CliDimensions
    THEN {[err |-> "invalid dimension", items |-> <<>>, queried |-> FALSE]}
    ELSE IF ~ok
    THEN {[err |-> "failed to query breakdown", items |-> <<>>, queried |-> TRUE]}
    ELSE LET idx == Pageviews(site, days)
             names == {DimColumn(events[i], dimension) : i \in idx}
             Of(v) == {i \in idx : DimColumn(events[i], dimension) = v}
             Visitors(v) == Cardinality(SessionsOf(Of(v)))
             Item(v) == [name |-> v,
                         visitors |-> Visitors(v),
                         pageviews |-> Cardinality(Of(v)),
                         bounce_rate |->
                            calculateDimensionBounceRate(site, dimension, v, days, subOk)]
         IN {[err |-> "nil", items |-> [i \in 1..Len(s) |-> Item(s[i])], queried |-> TRUE] :
                s \in OrderedTop(names, [k \in names |-> Visitors(k)], limit)}

\* getTopPageDetail (698-753): days = 0 is the last 5 minutes; no row is
\* sql.ErrNoRows, and the callers read any error as nil; <<>> stands for nil
getTopPageDetail(site, days, ok) ==
    LET win == IF days = 0 THEN RecentPageviews(site, 5) ELSE Pageviews(site, days)
        idx == {i \in win : events[i].path # NULL}
        paths == {events[i].path : i \in idx}
        Cnt(p) == Cardinality({i \in idx : events[i].path = p})
    IN IF ~ok \/ paths = {} THEN {<<>>}
       ELSE {<<[Path |-> s[1],
                Pageviews |-> Cnt(s[1]),
                UniqueVisitors |->
                    Cardinality(SessionsOf({i \in idx : events[i].path = s[1]}))]>> :
                s \in OrderedTop(paths, [k \in paths |-> Cnt(k)], 1)}

\* getTopReferrer (755-782): GROUP BY e.referrer_domain, named by COALESCE
getTopReferrer(site, days, ok) ==
    LET idx == Pageviews(site, days)
        refs == {events[i].referrer : i \in idx}
        Of(r) == {i \in idx : events[i].referrer = r}
        Vis(r) == Cardinality(SessionsOf(Of(r)))
    IN IF ~ok \/ refs = {} THEN {<<>>}
       ELSE {<<[Domain |-> Coalesce(s[1], "Direct / None"),
                Visitors |-> Vis(s[1]),
                Pageviews |-> Cardinality(Of(s[1]))]>> :
                s \in OrderedTop(refs, [k \in refs |-> Vis(k)], 1)}

\* the map built by the rows.Next() loops of 784-880: rows are grouped by the raw
\* column, named by COALESCE(column, 'Unknown') and stored by name in row order
RECURSIVE RowsToMap(_, _)
RowsToMap(rows, Vis) ==
    IF rows = <<>> THEN <<>>
    ELSE LET n == Len(rows)
             before == RowsToMap(SubSeq(rows, 1, n - 1), Vis)
             nm == Coalesce(rows[n], "Unknown")
         IN [k \in (DOMAIN before) \cup {nm} |-> IF k = nm THEN Vis[rows[n]] ELSE before[k]]

\* getBrowserDistribution / getDeviceDistribution / getCountryDistribution
\* (784-880); limit < 0 stands for the query without LIMIT
getDistribution(site, days, column, limit, ok) ==
    LET idx == Pageviews(site, days)
        Raw(i) == CASE column = "browser" -> sessions[events[i].session].browser
                    [] column = "device" -> sessions[events[i].session].device
                    [] OTHER -> sessions[events[i].session].country
        groups == {Raw(i) : i \in idx}
        Vis(g) == Cardinality(SessionsOf({i \in idx : Raw(i) = g}))
        lim == IF limit < 0 THEN Cardinality(groups) ELSE limit
    IN IF ~ok THEN {<<>>}
       ELSE {RowsToMap(s, [g \in groups |-> Vis(g)]) : s \in OrderedTop(groups, [k \in groups |-> Vis(k)], lim)}

\* (mutant) a failed query is not told apart from a successful one
getAverageEngagementNoErrCheck(site, days, ok) == AvgSpan(Pageviews(site, days))

\* getAverageEngagement (882-904)
getAverageEngagement(site, days, ok) ==
    IF ~ok THEN FracZero ELSE AvgSpan(Pageviews(site, days))

OverviewQueries ==
    {"visitors", "pageviews", "top_page", "top_referrer", "browsers", "devices",
     "countries", "engagement"}

\* GetOverviewStats (434-510): the possible results, each [err, stats]; fails is
\* the set of sub-queries whose execution fails
GetOverviewStats(site, days, fails) ==
    IF "visitors" \in fails
    THEN {[err |-> "failed to query visitors", stats |-> <<>>]}
    ELSE IF "pageviews" \in fails
    THEN {[err |-> "failed to query pageviews", stats |-> <<>>]}
    ELSE {[err |-> "nil",
           stats |-> <<[TotalVisitors |-> Cardinality(SessionsOf(Pageviews(site, days))),
                        TotalPageviews |-> Cardinality(Pageviews(site, days)),
                        TopPage |-> tp,
                        TopReferrer |-> tr,
                        BrowserDistribution |-> bd,
                        DeviceDistribution |-> dd,
                        CountryDistribution |-> cd,
                        AvgEngagement |->
                            getAverageEngagement(site, days, "engagement" \notin fails)]>>] :
            tp \in getTopPageDetail(site, days, "top_page" \notin fails),
            tr \in getTopReferrer(site, days, "top_referrer" \notin fails),
            bd \in getDistribution(site, days, "browser", 3, "browsers" \notin fails),
            dd \in getDistribution(site, days, "device", -1, "devices" \notin fails),
            cd \in getDistribution(site, days, "country", 3, "countries" \notin fails)}

(***************************************************************************)
(* The single-shot stats commands (analytics.go 209-355).  Each operator   *)
(* gives the set of outcomes of one run of the command:                    *)
(*   err       the error returned ("nil" for none)                         *)
(*   connects  calls of connectDatabase                                    *)
(*   lookups   calls of getWebsiteIDByDomainFn                             *)
(*   queries   calls of the aggregate function                             *)
(*   out       what the aggregate function returned                        *)
(* env is the environment of the run: "open" (database.DB is set already), *)
(* "ok", or the step that fails.                                           *)
(***************************************************************************)
Envs == {"open", "ok", "connect_fails", "lookup_fails", "query_fails", "sub_fails"}

\* (mutant) an off-by-one upper bound
ValidDaysOffByOne(days) == ~(days < 1 \/ days >= 365)

\* lines 210, 252, 313
ValidDays(days) == ~(days < 1 \/ days > 365)

\* lines 256, 317
ValidTop(top) == ~(top < 1 \/ top > 100)

\* lines 297-311: the dimensions runStatsBreakdown lets through
ValidDimension(dimension) == dimension \in {"country", "browser", "device", "referrer", "os"}

Args(op, domain, days, top, dimension, fmt, env) ==
    [op |-> op, domain |-> domain, days |-> days, top |-> top,
     dimension |-> dimension, format |-> fmt, env |-> env]

Outcome(args, err, connects, lookups, queries, out) ==
    [op |-> args.op, domain |-> args.domain, days |-> args.days, top |-> args.top,
     dimension |-> args.dimension, format |-> args.format, env |-> args.env,
     err |-> err, connects |-> connects, lookups |-> lookups,
     queries |-> queries, out |-> out]

\* if database.DB == nil { connectDatabase() ... }
Connects(env) == IF env = "open" THEN 0 ELSE 1

\* the switch on format that ends each command
FormatError(fmt, dflt, valid) ==
    IF (IF fmt = "" THEN dflt ELSE fmt) \in valid THEN "nil" ELSE "invalid format"

\* lines 218-232 (264-277, 325-338): connection and website lookup, then the rest
\* of the command, rest[id], when both succeed
AfterLookup(args, rest) ==
    IF args.env = "connect_fails"
    THEN {Outcome(args, "database connection failed", 1, 0, 0, <<>>)}
    ELSE UNION {IF res.err # "nil"
                THEN {Outcome(args, res.err, Connects(args.env), 1, 0, <<>>)}
                ELSE rest[res.id] :
                res \in GetWebsiteIDByDomain(args.domain, args.env # "lookup_fails")}

\* runStatsOverview (209-249)
runStatsOverview(domain, days, fmt, env) ==
    LET args == Args("overview", domain, days, 0, "", fmt, env)
        Rest(id) ==
            {IF r.err # "nil"
             THEN Outcome(args, r.err, Connects(env), 1, 1, <<>>)
             ELSE Outcome(args, FormatError(fmt, "table", {"json", "text", "table"}),
                          Connects(env), 1, 1, r.stats) :
             r \in GetOverviewStats(id, days,
                      CASE env = "query_fails" -> {"visitors"}
                        [] env = "sub_fails" -> {"top_page"}
                        [] OTHER -> {})}
    IN IF ~ValidDays(days)
       THEN {Outcome(args, "days must be between 1 and 365", 0, 0, 0, <<>>)}
       ELSE AfterLookup(args, [id \in {r.id : r \in websites} |-> Rest(id)])

\* runStatsPages (251-294)
runStatsPages(domain, days, top, fmt, env) ==
    LET args == Args("pages", domain, days, top, "", fmt, env)
        Rest(id) ==
            {IF r.err # "nil"
             THEN Outcome(args, r.err, Connects(env), 1, 1, <<>>)
             ELSE Outcome(args, FormatError(fmt, "table", {"json", "csv", "table"}),
                          Connects(env), 1, 1, r.pages) :
             r \in GetTopPages(id, days, top, env # "query_fails", env # "sub_fails")}
    IN IF ~ValidDays(days)
       THEN {Outcome(args, "days must be between 1 and 365", 0, 0, 0, <<>>)}
       ELSE IF ~ValidTop(top)
       THEN {Outcome(args, "top must be between 1 and 100", 0, 0, 0, <<>>)}
       ELSE AfterLookup(args, [id \in {r.id : r \in websites} |-> Rest(id)])

\* runStatsBreakdown (296-355)
runStatsBreakdown(domain, dimension, days, top, fmt, env) ==
    LET args == Args("breakdown", domain, days, top, dimension, fmt, env)
        Rest(id) ==
            {IF r.err # "nil"
             THEN Outcome(args, r.err, Connects(env), 1, 1, <<>>)
             ELSE Outcome(args, FormatError(fmt, "table", {"json", "csv", "table"}),
                          Connects(env), 1, 1, r.items) :
             r \in GetBreakdownStats(id, dimension, days, top,
                                     env # "query_fails", env # "sub_fails")}
    IN IF dimension = ""
       THEN {Outcome(args, "--by dimension is required (valid: country, browser, device, referrer, os)",
                     0, 0, 0, <<>>)}
       ELSE IF ~ValidDimension(dimension)
       THEN {Outcome(args, "invalid dimension (valid: country, browser, device, referrer, os)",
                     0, 0, 0, <<>>)}
       ELSE IF ~ValidDays(days)
       THEN {Outcome(args, "days must be between 1 and 365", 0, 0, 0, <<>>)}
       ELSE IF ~ValidTop(top)
       THEN {Outcome(args, "top must be between 1 and 100", 0, 0, 0, <<>>)}
       ELSE AfterLookup(args, [id \in {r.id : r \in websites} |-> Rest(id)])

\* one run of each command, recorded in last
RunStatsOverview(domain, days, fmt, env) ==
    /\ last' \in runStatsOverview(domain, days, fmt, env)
    /\ UNCHANGED <<liveVars, storeVars>>

RunStatsPages(domain, days, top, fmt, env) ==
    /\ last' \in runStatsPages(domain, days, top, fmt, env)
    /\ UNCHANGED <<liveVars, storeVars>>

RunStatsBreakdown(domain, dimension, days, top, fmt, env) ==
    /\ last' \in runStatsBreakdown(domain, dimension, days, top, fmt, env)
    /\ UNCHANGED <<liveVars, storeVars>>

(***************************************************************************)
(* GetLiveStats (analytics.go 646-694).                                    *)
(***************************************************************************)
LiveQueries == {"active", "last_minute", "top_page", "referrers", "recent"}

\* getRecentReferrers (1015-...): top 5 referrer groups of the last 5 minutes by
\* row count; an error is read as no referrers
getRecentReferrers(site, ok) ==
    LET idx == RecentPageviews(site, 5)
        refs == {events[i].referrer : i \in idx}
        Cnt(r) == Cardinality({i \in idx : events[i].referrer = r})
    IN IF ~ok THEN {<<>>}
       ELSE {[i \in 1..Len(s) |-> [referrer |-> Coalesce(s[i], "Direct / None"),
                                   count |-> Cnt(s[i])]] :
                s \in OrderedTop(refs, [k \in refs |-> Cnt(k)], 5)}

\* GetLiveStats: every Scan error is discarded (_ =), the field keeps its zero
\* value and the function returns a nil error; fails is the set of sub-queries
\* whose execution fails
GetLiveStats(site, fails) ==
    {[err |-> "nil",
      data |-> [ActiveVisitorsNow |->
                    IF "active" \in fails THEN 0
                    ELSE Cardinality(SessionsOf(RecentPageviews(site, 5))),
                PageviewsLastMinute |->
                    IF "last_minute" \in fails THEN 0
                    ELSE Cardinality(RecentPageviews(site, 1)),
                TopPageNow |-> tp,
                RecentReferrers |-> rr,
                RecentEvents |->
                    IF "recent" \in fails THEN 0
                    ELSE Cardinality(RecentPageviews(site, 5))]] :
        tp \in getTopPageDetail(site, 0, "top_page" \notin fails),
        rr \in getRecentReferrers(site, "referrers" \notin fails)}

(***************************************************************************)
(* The HTTP aggregation handlers.  The SQL functions they call             *)
(* (get_timeseries, get_top_pages, get_dashboard_stats) answer with the    *)
(* rows the environment gives, or fail.                                    *)
(***************************************************************************)
\* fiber.Query[int](c, key, dflt): the default when the parameter is absent (<<>>)
QueryInt(param, dflt) == IF param = <<>> THEN dflt ELSE param[1]

\* HandleTimeSeries (part_004 11-80)
HandleTimeSeries(idOk, daysParam, dbOk, nRows) ==
    LET d == QueryInt(daysParam, 7)
        days == IF d > 90 THEN 90 ELSE d
    IN IF ~idOk
       THEN [op |-> "HandleTimeSeries", param |-> daysParam, status |-> 400,
             queried |-> FALSE, arg |-> 0, storeFailed |-> FALSE, rows |-> 0]
       ELSE [op |-> "HandleTimeSeries", param |-> daysParam,
             status |-> IF dbOk THEN 200 ELSE 500,
             queried |-> TRUE, arg |-> days, storeFailed |-> ~dbOk,
             rows |-> IF dbOk THEN nRows ELSE 0]

\* HandleTopPages (pages.go 11-77)
HandleTopPages(idOk, limitParam, dbOk, nRows) ==
    LET limit == QueryInt(limitParam, 10)
    IN IF ~idOk
       THEN [op |-> "HandleTopPages", param |-> limitParam, status |-> 400,
             queried |-> FALSE, arg |-> 0, storeFailed |-> FALSE, rows |-> 0]
       ELSE [op |-> "HandleTopPages", param |-> limitParam,
             status |-> IF dbOk THEN 200 ELSE 500,
             queried |-> TRUE, arg |-> limit, storeFailed |-> ~dbOk,
             rows |-> IF dbOk THEN nRows ELSE 0]

\* HandleDashboardStats (part_005 13-76): row is the (current_visitors,
\* today_pageviews, today_visitors, bounce_rate) row of get_dashboard_stats
HandleDashboardStats(idOk, dbOk, row) ==
    IF ~idOk
    THEN [op |-> "HandleDashboardStats", status |-> 400, queried |-> FALSE,
          storeFailed |-> FALSE, body |-> <<>>]
    ELSE IF ~dbOk
    THEN [op |-> "HandleDashboardStats", status |-> 200, queried |-> TRUE,
          storeFailed |-> TRUE, body |-> <<0, 0, 0, 0>>]
    ELSE [op |-> "HandleDashboardStats", status |-> 200, queried |-> TRUE,
          storeFailed |-> FALSE, body |-> row]

(***************************************************************************)
(* Website administration (db.go).                                         *)
(***************************************************************************)
\* the characters of the domains of the model
DomainChars(d) ==
    CASE d = "" -> {}
      [] d = "a b.com" -> {"a", " ", "b", ".", "c", "o", "m"}
      [] d = "a.com" -> {"a", ".", "c", "o", "m"}
      [] d = "A.com" -> {"A", ".", "c", "o", "m"}
      [] OTHER -> {"b", ".", "c", "o", "m"}

DomainAlphabet == {"a", "b", "c", "o", "m", "A", ".", "-", ":"}

\* validateDomain (338-361)
validateDomain(domain) ==
    IF domain = "" THEN "invalid domain format: domain cannot be empty"
    ELSE IF DomainChars(domain) \subseteq DomainAlphabet THEN "nil"
    ELSE "invalid domain format: contains invalid characters"

\* WHERE deleted_at IS NULL AND (LOWER(domain) = LOWER($1) OR website_id = $2);
\* websiteID is <<>> for nil
GetWebsiteByDomainRows(domain, websiteID) ==
    {r \in websites :
        /\ ~r.deleted
        /\ (Lower(r.domain) = Lower(domain) \/ <<r.id>> = websiteID)}

\* GetWebsiteByDomain (28-69): LIMIT 1 takes any matching row
GetWebsiteByDomain(domain, websiteID, dbOk) ==
    IF ~dbOk THEN {[id |-> 0, err |-> "database error"]}
    ELSE IF GetWebsiteByDomainRows(domain, websiteID) = {}
         THEN {[id |-> 0, err |-> "website not found"]}
         ELSE {[id |-> r.id, err |-> "nil"] : r \in GetWebsiteByDomainRows(domain, websiteID)}

\* uuid.New(): an id no row has
NewWebsiteID == CHOOSE i \in 1..(Cardinality(websites) + 1) : \A r \in websites : r.id # i

\* CreateWebsite (171-240)
CreateWebsite(domain, dbOk) ==
    /\ IF validateDomain(domain) # "nil"
       THEN /\ last' = [op |-> "CreateWebsite", domain |-> domain,
                        err |-> validateDomain(domain), id |-> 0]
            /\ UNCHANGED websites
       ELSE IF ~dbOk
       THEN /\ last' = [op |-> "CreateWebsite", domain |-> domain,
                        err |-> "database error", id |-> 0]
            /\ UNCHANGED websites
       ELSE IF \E r \in websites : Lower(r.domain) = Lower(domain) /\ ~r.deleted
       THEN /\ last' = [op |-> "CreateWebsite", domain |-> domain,
                        err |-> "website already exists", id |-> 0]
            /\ UNCHANGED websites
       ELSE /\ Cardinality(websites) < MaxWebsites
            /\ websites' = websites \cup {WebsiteRow(NewWebsiteID, domain, FALSE)}
            /\ last' = [op |-> "CreateWebsite", domain |-> domain,
                        err |-> "nil", id |-> NewWebsiteID]
    /\ UNCHANGED <<liveVars, sessions, events, now>>

\* SET deleted_at = NOW() (lines 322-326)
SoftDelete(r) == WebsiteRow(r.id, r.domain, TRUE)

\* DeleteWebsite (313-335)
DeleteWebsite(domain, dbOk) ==
    /\ \E res \in GetWebsiteByDomain(domain, <<>>, dbOk) :
          IF res.err # "nil"
          THEN /\ last' = [op |-> "DeleteWebsite", domain |-> domain,
                           err |-> res.err, id |-> 0]
               /\ UNCHANGED websites
          ELSE /\ websites' = {IF r.id = res.id THEN SoftDelete(r) ELSE r : r \in websites}
               /\ last' = [op |-> "DeleteWebsite", domain |-> domain,
                           err |-> "nil", id |-> res.id]
    /\ UNCHANGED <<liveVars, sessions, events, now>>

\* one call of GetWebsiteIDByDomain, recorded in last
LookupWebsiteID(domain, dbOk) ==
    /\ \E res \in GetWebsiteIDByDomain(domain, dbOk) :
          last' = [op |-> "GetWebsiteIDByDomain", domain |-> domain, dbOk |-> dbOk,
                   websiteID |-> <<>>, err |-> res.err, id |-> res.id]
    /\ UNCHANGED <<liveVars, storeVars>>

\* one call of GetWebsiteByDomain, recorded in last
LookupWebsite(domain, websiteID, dbOk) ==
    /\ \E res \in GetWebsiteByDomain(domain, websiteID, dbOk) :
          last' = [op |-> "GetWebsiteByDomain", domain |-> domain, dbOk |-> dbOk,
                   websiteID |-> websiteID, err |-> res.err, id |-> res.id]
    /\ UNCHANGED <<liveVars, storeVars>>

(***************************************************************************)
(* runStatsLive (analytics.go 357-417).                                    *)
(***************************************************************************)
\* (mutant) an interval out of range is moved to the nearest bound
ClampIntervalSaturating(i) == IF i < 2 THEN 2 ELSE IF i > 60 THEN 60 ELSE i

\* lines 358-360
ClampInterval(i) == IF i < 2 \/ i > 60 THEN 5 ELSE i

\* lines 362-364
DefaultLiveFormat(f) == IF f = "" THEN "text" ELSE f

\* (mutant) the deferred stop is missing
DeferredStopTickerMissing(t) == t

\* defer stopTicker() (line 386): what the ticker is once the function is left
DeferredStopTicker(t) == IF t = "running" THEN "stopped" ELSE t

\* (mutant) the fetch is started in the background and the loop selects again
TickBranchPcAsync == "select"

\* case <-tickCh (lines 403-404): getLiveStatsFn is called synchronously, so the
\* loop is inside the call until it returns
TickBranchPc == "fetching"

\* (mutant) a failed fetch ends the loop
FetchErrorPcReturn == "returned"

\* err != nil (lines 405-408): report and continue
FetchErrorPc == "select"

\* lines 358-388: validation, connection, context, lookup, signal and ticker setup
LiveStart(domain, ivl, fmt, db, lookupOk) ==
    /\ pc = "idle"
    /\ interval' = ClampInterval(ivl)
    /\ format' = DefaultLiveFormat(fmt)
    /\ IF db = "unreachable"
       THEN /\ pc' = "returned"
            /\ ret' = "database connection failed"
            /\ exitCause' = "connect"
            /\ UNCHANGED <<sigRegistered, ticker>>
       ELSE \E res \in GetWebsiteIDByDomain(domain, lookupOk) :
              IF res.err # "nil"
              THEN /\ pc' = "returned"
                   /\ ret' = res.err
                   /\ exitCause' = "lookup"
                   /\ UNCHANGED <<sigRegistered, ticker>>
              ELSE /\ pc' = "init_fetch"
                   /\ sigRegistered' = TRUE
                   /\ ticker' = "running"
                   /\ UNCHANGED <<ret, exitCause>>
    /\ UNCHANGED <<sigBuf, tickBuf, ticksFired, deadlineExpired, inFlight,
                   fetchCount, renderCount, failStreak, liveData>>
    /\ last' = [op |-> "live", domain |-> domain, interval |-> ivl, db |-> db,
                lookupOk |-> lookupOk]
    /\ UNCHANGED storeVars

\* line 391: the initial call of getLiveStatsFn starts
LiveInitFetchBegin ==
    /\ pc = "init_fetch"
    /\ pc' = "init_fetching"
    /\ inFlight' = inFlight + 1
    /\ fetchCount' = fetchCount + 1
    /\ UNCHANGED <<interval, format, sigRegistered, sigBuf, ticker, tickBuf,
                   ticksFired, deadlineExpired, renderCount, failStreak,
                   liveData, ret, exitCause>>
    /\ UNCHANGED <<storeVars, last>>

\* line 391: the initial call returns; its error is discarded
LiveInitFetchEnd(ok) ==
    /\ pc = "init_fetching"
    /\ pc' = "init_render"
    /\ inFlight' = inFlight - 1
    /\ liveData' = IF ok THEN "data" ELSE "nil"
    /\ UNCHANGED <<interval, format, sigRegistered, sigBuf, ticker, tickBuf,
                   ticksFired, deadlineExpired, fetchCount, renderCount,
                   failStreak, ret, exitCause>>
    /\ UNCHANGED <<storeVars, last>>

\* lines 392-396: outputLiveJSON marshals a nil pointer as null; outputLiveTerm
\* reads data.Timestamp (line 1276) and panics on a nil pointer, and the deferred
\* stopTicker runs while the panic unwinds
LiveInitRender ==
    /\ pc = "init_render"
    /\ IF format # "json" /\ liveData = "nil"
       THEN /\ pc' = "panicked"
            /\ exitCause' = "panic"
            /\ ticker' = DeferredStopTicker(ticker)
            /\ UNCHANGED renderCount
       ELSE /\ pc' = "select"
            /\ renderCount' = renderCount + 1
            /\ UNCHANGED <<exitCause, ticker>>
    /\ UNCHANGED <<interval, format, sigRegistered, sigBuf, tickBuf, ticksFired,
                   deadlineExpired, inFlight, fetchCount, failStreak, liveData, ret>>
    /\ UNCHANGED <<storeVars, last>>

\* lines 400-402: case <-sigChan: return nil, and the deferred stopTicker runs
LiveSelectSignal ==
    /\ pc = "select"
    /\ sigBuf > 0
    /\ sigBuf' = sigBuf - 1
    /\ pc' = "returned"
    /\ ret' = "nil"
    /\ exitCause' = "signal"
    /\ ticker' = DeferredStopTicker(ticker)
    /\ UNCHANGED <<interval, format, sigRegistered, tickBuf, ticksFired,
                   deadlineExpired, inFlight, fetchCount, renderCount,
                   failStreak, liveData>>
    /\ UNCHANGED <<storeVars, last>>

\* lines 403-404: case <-tickCh: the call of getLiveStatsFn starts
LiveSelectTick ==
    /\ pc = "select"
    /\ tickBuf > 0
    /\ tickBuf' = tickBuf - 1
    /\ pc' = TickBranchPc
    /\ inFlight' = inFlight + 1
    /\ fetchCount' = fetchCount + 1
    /\ UNCHANGED <<interval, format, sigRegistered, sigBuf, ticker, ticksFired,
                   deadlineExpired, renderCount, failStreak, liveData, ret,
                   exitCause>>
    /\ UNCHANGED <<storeVars, last>>

\* lines 404-408: the call returns; on an error it is printed and the loop continues
LiveFetchEnd(ok) ==
    /\ pc = "fetching"
    /\ inFlight > 0
    /\ inFlight' = inFlight - 1
    /\ IF ok
       THEN /\ pc' = "render"
            /\ liveData' = "data"
            /\ failStreak' = 0
       ELSE /\ pc' = FetchErrorPc
            /\ liveData' = "nil"
            /\ failStreak' = failStreak + 1
    /\ UNCHANGED <<interval, format, sigRegistered, sigBuf, ticker, tickBuf,
                   ticksFired, deadlineExpired, fetchCount, renderCount, ret,
                   exitCause>>
    /\ UNCHANGED <<storeVars, last>>

\* lines 410-414: the snapshot of this tick is written
LiveRender ==
    /\ pc = "render"
    /\ pc' = "select"
    /\ renderCount' = renderCount + 1
    /\ UNCHANGED <<interval, format, sigRegistered, sigBuf, ticker, tickBuf,
                   ticksFired, deadlineExpired, inFlight, fetchCount, failStreak,
                   liveData, ret, exitCause>>
    /\ UNCHANGED <<storeVars, last>>

\* time.Ticker (lines 80-83): a tick is sent when the channel has room and is
\* dropped otherwise
TickerFires ==
    /\ ticker = "running"
    /\ ticksFired < MaxTicks
    /\ tickBuf = 0
    /\ tickBuf' = 1
    /\ ticksFired' = ticksFired + 1
    /\ UNCHANGED <<pc, interval, format, sigRegistered, sigBuf, ticker,
                   deadlineExpired, inFlight, fetchCount, renderCount,
                   failStreak, liveData, ret, exitCause>>
    /\ UNCHANGED <<storeVars, last>>

\* signal.Notify (lines 84-86, 382-383): SIGINT/SIGTERM is relayed to sigChan
\* without blocking
SignalArrives ==
    /\ sigRegistered
    /\ pc \notin {"returned", "panicked"}
    /\ sigBuf = 0
    /\ sigBuf' = 1
    /\ UNCHANGED <<pc, interval, format, sigRegistered, ticker, tickBuf,
                   ticksFired, deadlineExpired, inFlight, fetchCount,
                   renderCount, failStreak, liveData, ret, exitCause>>
    /\ UNCHANGED <<storeVars, last>>

\* context.WithTimeout(..., 24*time.Hour) (line 373): the deadline passes
DeadlineExpires ==
    /\ pc \notin {"idle", "returned", "panicked"}
    /\ ~deadlineExpired
    /\ deadlineExpired' = TRUE
    /\ UNCHANGED <<pc, interval, format, sigRegistered, sigBuf, ticker, tickBuf,
                   ticksFired, inFlight, fetchCount, renderCount, failStreak,
                   liveData, ret, exitCause>>
    /\ UNCHANGED <<storeVars, last>>

LiveLoopNext ==
    \/ LiveInitFetchBegin
    \/ \E ok \in BOOLEAN : LiveInitFetchEnd(ok)
    \/ LiveInitRender
    \/ LiveSelectSignal
    \/ LiveSelectTick
    \/ \E ok \in BOOLEAN : LiveFetchEnd(ok)
    \/ LiveRender
    \/ TickerFires
    \/ SignalArrives
    \/ DeadlineExpires

LiveInit ==
    /\ pc = "idle"
    /\ interval = 0
    /\ format = ""
    /\ sigRegistered = FALSE
    /\ sigBuf = 0
    /\ ticker = "none"
    /\ tickBuf = 0
    /\ ticksFired = 0
    /\ deadlineExpired = FALSE
    /\ inFlight = 0
    /\ fetchCount = 0
    /\ renderCount = 0
    /\ failStreak = 0
    /\ liveData = "unset"
    /\ ret = "none"
    /\ exitCause = "none"

NoOp == [op |-> "none"]

\* the session rows the model's events refer to
SessionTable ==
    [sid \in SessionIds |->
        CASE sid = 1 -> SessionRow("US", "NY", "New York", "Chrome", "desktop", "Linux")
          [] sid = 2 -> SessionRow(NULL, NULL, NULL, "Firefox", "mobile", NULL)
          [] OTHER -> SessionRow("DE", "BE", "Berlin", "Chrome", "mobile", "Android")]

\* tables the live command can be started against
LiveTables ==
    { {},
      {WebsiteRow(1, "a.com", FALSE)},
      {WebsiteRow(1, "a.com", TRUE)},
      {WebsiteRow(1, "a.com", TRUE), WebsiteRow(2, "b.com", FALSE)} }

InitLive ==
    /\ LiveInit
    /\ websites \in LiveTables
    /\ sessions = SessionTable
    /\ events = <<>>
    /\ now = 0
    /\ last = NoOp

NextLive ==
    \/ \E d \in Domains, i \in Intervals, f \in LiveFormats, db \in DbStates,
          lookupOk \in BOOLEAN : LiveStart(d, i, f, db, lookupOk)
    \/ LiveLoopNext

SpecLive == InitLive /\ [][NextLive]_vars

(***************************************************************************)
(* Claims about the live-stats loop, checked under SpecLive.               *)
(***************************************************************************)

\* C1: snapshot fetches of one loop are strictly sequential: at most one call of
\* getLiveStatsFn is in flight at any moment, it is in flight only while the loop
\* is inside that call, and a new fetch starts only from the loop's waiting points
\* with no fetch in flight, so a tick that becomes ready during a fetch or a render
\* starts no overlapping fetch.
C1_FetchesSequential ==
    /\ inFlight <= 1
    /\ (inFlight = 1) <=> (pc \in {"init_fetching", "fetching"})
    /\ pc \in {"render", "init_render", "select"} => inFlight = 0

\* a tick became ready while the second fetch was still in flight
C1_Witness ==
    pc = "fetching" /\ tickBuf = 1 /\ inFlight = 1 /\ fetchCount >= 2

\* C2: once the 24-hour deadline has expired, the loop performs no further fetch:
\* when it leaves its select after the expiry (a tick or a signal arrived), it
\* returns instead of fetching.
C2_NoFetchAfterDeadline ==
    [][(deadlineExpired /\ pc = "select" /\ pc' # "select")
         => (pc' = "returned" /\ fetchCount' = fetchCount)]_vars

\* C3: whenever runStatsLive has been left after the ticker was created (by
\* returning or by unwinding), the ticker is stopped, and the return taken on the
\* cancellation signal returns nil.
C3_TickerStoppedOnReturn ==
    /\ pc \in {"returned", "panicked"} => ticker # "running"
    /\ (pc = "returned" /\ exitCause = "signal") => (ret = "nil" /\ ticker = "stopped")
    /\ (pc = "returned" /\ exitCause # "signal") => ticker = "none"

\* the test's scenario: initial fetch, one tick fetch, then the signal
C3_Witness ==
    /\ pc = "returned" /\ exitCause = "signal" /\ ret = "nil"
    /\ ticker = "stopped" /\ fetchCount >= 2

\* C4: a tick fetch that returns an error leaves the loop waiting in its select
\* with nothing rendered, nothing returned and the ticker running, whatever the
\* number of failures before it, and from there a ready tick starts a new fetch.
C4_FailedTickKeepsLoop ==
    /\ [][(pc = "fetching" /\ pc' # "fetching" /\ liveData' = "nil")
            => /\ pc' = "select"
               /\ renderCount' = renderCount
               /\ ret' = ret
               /\ ticker' = ticker
               /\ failStreak' = failStreak + 1]_vars
    /\ []((pc = "select" /\ tickBuf > 0) => ENABLED LiveSelectTick)

\* two consecutive ticks failed and the third tick started a fetch
C4_Witness ==
    failStreak >= 2 /\ pc = "fetching" /\ ret = "none" /\ ticker = "running"

(***************************************************************************)
(* The one-shot stats commands over their argument ranges, against a store *)
(* with one website and two pageviews.                                     *)
(***************************************************************************)
DaysValues == {-1, 0, 1, 7, 365, 366}
TopValues == {-5, 0, 1, 10, 100, 101}
DimensionNames == {"", "country", "browser", "device", "referrer", "city", "region",
                   "page", "os", "bogus"}

\* CASE p_dimension ... ELSE RAISE EXCEPTION (000007, lines 21-135): the names
\* get_breakdown has a branch for
SqlDimensions == {"country", "browser", "device", "referrer", "city", "region", "page"}

\* CURRENT_DATE: the start of the clock's day
CurrentDate == now - (now % MinutesPerDay)

\* the value of a filtered attribute of an event row joined with its session
FilterAttr(e, a) ==
    CASE a = "country" -> sessions[e.session].country
      [] a = "browser" -> sessions[e.session].browser
      [] a = "device" -> sessions[e.session].device
      [] OTHER -> e.path

\* AND (p_x IS NULL OR column = p_x) for every filter x of applied; flt maps each
\* filter name to its parameter, NULL when unset
FiltersPass(e, flt, applied) ==
    \A a \in applied : flt[a] = NULL \/ (FilterAttr(e, a) # NULL /\ FilterAttr(e, a) = flt[a])

FilterSet(p_country, p_browser, p_device, p_page_path) ==
    [country |-> p_country, browser |-> p_browser, device |-> p_device,
     page |-> p_page_path]

\* (mutant) every branch has all four filter conditions
BreakdownFiltersAll(p_dimension) == {"country", "browser", "device", "page"}

\* the filter conditions in the WHERE clause of each branch of get_breakdown
BreakdownFilters(p_dimension) ==
    CASE p_dimension = "country" -> {"browser", "device", "page"}
      [] p_dimension = "browser" -> {"country", "device", "page"}
      [] p_dimension = "device" -> {"country", "browser", "page"}
      [] p_dimension = "page" -> {"country", "browser", "device"}
      [] OTHER -> {"country", "browser", "device", "page"}

\* the grouped column of each branch of get_breakdown
BreakdownColumn(e, p_dimension) ==
    CASE p_dimension = "country" -> sessions[e.session].country
      [] p_dimension = "browser" -> sessions[e.session].browser
      [] p_dimension = "device" -> sessions[e.session].device
      [] p_dimension = "city" -> sessions[e.session].city
      [] p_dimension = "region" -> sessions[e.session].region
      [] p_dimension = "referrer" -> e.referrer
      [] OTHER -> e.path

\* get_breakdown (000007, 9-138): the possible results, each [err, rows]
get_breakdown(p_website_id, p_dimension, p_days, p_limit, p_country, p_browser, p_device, p_page_path) ==
    IF p_dimension \notin SqlDimensions
    THEN {[err |-> "Invalid dimension. Must be country, browser, device, referrer, city, region, or page",
           rows |-> <<>>]}
    ELSE LET flt == FilterSet(p_country, p_browser, p_device, p_page_path)
             idx == {i \in 1..Len(events) :
                        /\ events[i].site = p_website_id
                        /\ events[i].at >= CurrentDate - p_days * MinutesPerDay
                        /\ events[i].etype = PageView
                        /\ (p_dimension = "page" => events[i].path # NULL)
                        /\ FiltersPass(events[i], flt, BreakdownFilters(p_dimension))}
             groups == {BreakdownColumn(events[i], p_dimension) : i \in idx}
             Cnt(g) == Cardinality({i \in idx : BreakdownColumn(events[i], p_dimension) = g})
             dflt == IF p_dimension = "referrer" THEN "Direct / None" ELSE "Unknown"
         IN {[err |-> "nil",
              rows |-> [k \in 1..Len(s) |-> [name |-> Coalesce(s[k], dflt),
                                             count |-> Cnt(s[k])]]] :
                s \in OrderedTop(groups, [g \in groups |-> Cnt(g)], p_limit)}

\* SELECT * FROM get_breakdown(...), recorded in last
CallGetBreakdown(p_dimension, p_days, p_limit, flt) ==
    /\ last' \in {[op |-> "get_breakdown", dimension |-> p_dimension, days |-> p_days,
                   limit |-> p_limit, filters |-> flt, err |-> r.err,
                   queries |-> IF r.err = "nil" THEN 1 ELSE 0, rows |-> r.rows] :
                    r \in get_breakdown(1, p_dimension, p_days, p_limit, flt.country,
                                        flt.browser, flt.device, flt.page)}
    /\ UNCHANGED <<liveVars, storeVars>>

\* the events get_map_data, get_avg_session_duration, get_bounce_sessions and
\* get_page_engagement select: pageviews of the website since NOW() - p_days days
\* that pass the filters
SqlPageviews(p_website_id, p_days, flt, applied) ==
    {i \in 1..Len(events) :
        /\ events[i].site = p_website_id
        /\ events[i].at >= now - p_days * MinutesPerDay
        /\ events[i].etype = PageView
        /\ FiltersPass(events[i], flt, applied)}

\* (mutant) the percentage is rounded to one decimal
RoundPct2OneDecimal(n, d) == 10 * ((2000 * n + d) \div (2 * d))

\* ROUND(n / d * 100, 2) in hundredths, and ROUND(n / d * 100, 1) in tenths
\* (numeric rounding is half away from zero)
RoundPct2(n, d) == (20000 * n + d) \div (2 * d)
RoundPct1(n, d) == (2000 * n + d) \div (2 * d)

\* get_map_data (000007, 144-197): rows [country, visitors, percentage], the
\* percentage in hundredths
get_map_data(p_website_id, p_days, p_country, p_browser, p_device, p_page_path) ==
    LET flt == FilterSet(p_country, p_browser, p_device, p_page_path)
        idx == SqlPageviews(p_website_id, p_days, flt, {"country", "browser", "device", "page"})
        total == Cardinality(SessionsOf(idx))
        groups == {sessions[events[i].session].country : i \in idx}
        Vis(g) == Cardinality(SessionsOf({i \in idx : sessions[events[i].session].country = g}))
    IN {[k \in 1..Len(s) |->
            [country |-> Coalesce(s[k], "Unknown"),
             visitors |-> Vis(s[k]),
             percentage |-> IF total > 0 THEN RoundPct2(Vis(s[k]), total) ELSE 0]] :
          s \in OrderedTop(groups, [g \in groups |-> Vis(g)], Cardinality(groups))}

\* (mutant) the HAVING clause is missing
DurationSessionsNoHaving(idx) == SessionsOf(idx)

\* GROUP BY e.session_id HAVING COUNT(*) > 1 (lines 247-248)
DurationSessions(idx) ==
    {sid \in SessionsOf(idx) : Cardinality({i \in idx : events[i].session = sid}) > 1}

\* get_avg_session_duration (000007, 223-254): the average in seconds, 0 seconds
\* when there is no session to average
get_avg_session_duration(p_website_id, p_days, p_country, p_browser, p_device) ==
    LET flt == FilterSet(p_country, p_browser, p_device, NULL)
        idx == SqlPageviews(p_website_id, p_days, flt, {"country", "browser", "device"})
        S == DurationSessions(idx)
    IN IF S = {} THEN FracZero
       ELSE Frac(SumOver(S, [sid \in S |-> SpanSeconds(idx, sid)]), Cardinality(S))

\* get_bounce_sessions (000007, 257-303): the CTE keeps the sessions with one
\* pageview in the window and filters; the outer SELECT lists the pageviews of
\* those sessions, newest first
get_bounce_sessions(p_website_id, p_days, p_country, p_browser, p_device) ==
    LET flt == FilterSet(p_country, p_browser, p_device, NULL)
        idx == SqlPageviews(p_website_id, p_days, flt, {"country", "browser", "device"})
        spc == {sid \in SessionsOf(idx) :
                    Cardinality({i \in idx : events[i].session = sid}) = 1}
        out == {i \in 1..Len(events) :
                    /\ events[i].site = p_website_id
                    /\ events[i].etype = PageView
                    /\ events[i].session \in spc}
    IN {[k \in 1..Len(s) |->
            [session_id |-> events[s[k]].session,
             created_at |-> events[s[k]].at,
             country |-> Coalesce(sessions[events[s[k]].session].country, "Unknown"),
             browser |-> Coalesce(sessions[events[s[k]].session].browser, "Unknown"),
             device |-> Coalesce(sessions[events[s[k]].session].device, "Unknown"),
             url_path |-> Coalesce(events[s[k]].path, "Unknown")]] :
          s \in OrderedTop(out, [i \in out |-> events[i].at], Cardinality(out))}

\* get_page_engagement (000007, 309-365): rows [page_path, pageviews,
\* unique_visitors, bounce_rate], the bounce rate in tenths; bounce_count counts
\* the sessions of the group that have one pageview of the website in all
\* (the subquery on e2 has no window and no filter)
get_page_engagement(p_website_id, p_days, p_limit, p_country, p_browser, p_device) ==
    LET flt == FilterSet(p_country, p_browser, p_device, NULL)
        idx == {i \in SqlPageviews(p_website_id, p_days, flt, {"country", "browser", "device"}) :
                    events[i].path # NULL}
        paths == {events[i].path : i \in idx}
        Of(p) == {i \in idx : events[i].path = p}
        AllViews(sid) == Cardinality({i \in 1..Len(events) :
                                        /\ events[i].session = sid
                                        /\ events[i].site = p_website_id
                                        /\ events[i].etype = PageView})
        Bounce(p) == Cardinality({sid \in SessionsOf(Of(p)) : AllViews(sid) = 1})
        Visitors(p) == Cardinality(SessionsOf(Of(p)))
    IN {[k \in 1..Len(s) |->
            [page_path |-> s[k],
             pageviews |-> Cardinality(Of(s[k])),
             unique_visitors |-> Visitors(s[k]),
             bounce_rate |-> IF Visitors(s[k]) > 0
                             THEN RoundPct1(Bounce(s[k]), Visitors(s[k])) ELSE 0]] :
          s \in OrderedTop(paths, [p \in paths |-> Cardinality(Of(p))], p_limit)}

ArgsEvents ==
    << EventRow(1, 1, PageView, "/", NULL, 0),
       EventRow(1, 2, PageView, "/docs", "g.com", 0) >>

InitArgs ==
    /\ LiveInit
    /\ websites = {WebsiteRow(1, "a.com", FALSE)}
    /\ sessions = SessionTable
    /\ events = ArgsEvents
    /\ now = 0
    /\ last = NoOp

NextArgs ==
    \/ \E days \in DaysValues, env \in {"open", "ok"} :
          RunStatsOverview("a.com", days, "", env)
    \/ \E days \in DaysValues, top \in TopValues, env \in {"open", "ok"} :
          RunStatsPages("a.com", days, top, "", env)
    \/ \E dimension \in DimensionNames, days \in DaysValues, top \in TopValues,
          env \in {"open", "ok"} :
          RunStatsBreakdown("a.com", dimension, days, top, "", env)
    \/ \E dimension \in DimensionNames :
          CallGetBreakdown(dimension, 7, 10, FilterSet(NULL, NULL, NULL, NULL))

SpecArgs == InitArgs /\ [][NextArgs]_vars

(***************************************************************************)
(* Claims about argument validation, checked under SpecArgs.               *)
(***************************************************************************)
ValidationErrors ==
    {"days must be between 1 and 365",
     "top must be between 1 and 100",
     "--by dimension is required (valid: country, browser, device, referrer, os)",
     "invalid dimension (valid: country, browser, device, referrer, os)"}

\* the last run was a stats command whose checks before the days check were passed
C5_ReachesDaysCheck ==
    \/ last.op \in {"overview", "pages"}
    \/ last.op = "breakdown" /\ last.dimension \in {"country", "browser", "device", "referrer", "os"}

\* C5: a stats command given days outside [1,365], or (pages, breakdown) top
\* outside [1,100], ends with a validation error and has opened no database
\* connection, looked up no website and run no aggregate query; the error names
\* the days bound when days is out of range and otherwise the top bound (a
\* breakdown whose --by value is itself rejected reports that first); with days
\* in {1, 365} and top in {1, 100} the command passes validation and goes on to
\* the website lookup.
C5_BoundsCheckedBeforeStorage ==
    last.op \in {"overview", "pages", "breakdown"} =>
        LET daysBad == last.days < 1 \/ last.days > 365
            topBad == last.op # "overview" /\ (last.top < 1 \/ last.top > 100)
        IN /\ (daysBad \/ topBad) =>
                /\ last.err \in ValidationErrors
                /\ last.connects = 0 /\ last.lookups = 0 /\ last.queries = 0
           /\ (daysBad /\ C5_ReachesDaysCheck) => last.err = "days must be between 1 and 365"
           /\ (~daysBad /\ topBad /\ C5_ReachesDaysCheck)
                => last.err = "top must be between 1 and 100"
           /\ (~daysBad /\ ~topBad /\ C5_ReachesDaysCheck) =>
                /\ last.err \notin ValidationErrors
                /\ last.lookups = 1
                /\ last.queries = 1

\* a run at the upper boundaries that was accepted and queried the store
C5_WitnessAccepted ==
    /\ last.op = "pages" /\ last.days = 365 /\ last.top = 100
    /\ last.err = "nil" /\ last.queries = 1 /\ Len(last.out) = 2

\* a run one past the days boundary that was rejected before any storage access
C5_Witness ==
    /\ last.op = "overview" /\ last.days = 366
    /\ last.err = "days must be between 1 and 365" /\ last.connects = 0

\* C7: every breakdown entry point accepts exactly country, browser, device,
\* referrer, city, region and page, and rejects any other name, the empty one
\* included, with a validation error before any query runs.
C7_SevenDimensionsEverywhere ==
    LET Seven == {"country", "browser", "device", "referrer", "city", "region", "page"}
    IN /\ (last.op = "breakdown" /\ last.days \in 1..365 /\ last.top \in 1..100) =>
            IF last.dimension \in Seven
            THEN last.err = "nil" /\ last.queries = 1
            ELSE last.err \in ValidationErrors /\ last.queries = 0
       /\ last.op = "get_breakdown" =>
            IF last.dimension \in Seven
            THEN last.err = "nil"
            ELSE last.err # "nil" /\ last.queries = 0

(***************************************************************************)
(* The stats commands against stores in which the website is known,        *)
(* unknown or soft-deleted and has or lacks events in the window.  One CLI  *)
(* process runs one command, so the commands and the administration steps  *)
(* are taken while no live loop is running.                                *)
(***************************************************************************)
StatsNow == 10 * MinutesPerDay

StatsTables ==
    { {},
      {WebsiteRow(1, "a.com", FALSE)},
      {WebsiteRow(1, "a.com", FALSE), WebsiteRow(2, "b.com", FALSE)} }

StatsEventTables ==
    { <<>>,
      << EventRow(1, 1, PageView, "/", NULL, StatsNow) >>,
      << EventRow(1, 1, PageView, "/", NULL, 0) >>,
      << EventRow(1, 1, 2, "/", NULL, StatsNow) >>,
      << EventRow(2, 2, PageView, "/b", "g.com", StatsNow) >> }

InitStats ==
    /\ LiveInit
    /\ websites \in StatsTables
    /\ sessions = SessionTable
    /\ events \in StatsEventTables
    /\ now = StatsNow
    /\ last = NoOp

NextStats ==
    \/ pc = "idle" /\ \E d \in Domains : DeleteWebsite(d, TRUE)
    \/ pc = "idle" /\ \E d \in Domains, f \in {"", "json", "xml"}, env \in Envs :
                        RunStatsOverview(d, 7, f, env)
    \/ pc = "idle" /\ \E d \in Domains, f \in {"", "json", "xml"}, env \in Envs :
                        RunStatsPages(d, 7, 10, f, env)
    \/ pc = "idle" /\ \E d \in Domains, dim \in {"country", "referrer"},
                         f \in {"", "json", "xml"}, env \in Envs :
                        RunStatsBreakdown(d, dim, 7, 10, f, env)
    \/ \E d \in Domains, db \in DbStates, lookupOk \in BOOLEAN :
          LiveStart(d, 5, "text", db, lookupOk)
    \/ LiveLoopNext

SpecStats == InitStats /\ [][NextStats]_vars

\* C8: a stats command whose domain matches no non-deleted website returns
\* 'website not found' and runs no aggregate query (the live command returns
\* before its first fetch and before a ticker exists), while a command on a
\* stored, non-deleted website that has no pageview in the window succeeds with
\* zero and empty values.
C8_NotFoundDistinctFromEmpty ==
    LET stored == {r \in websites : ~r.deleted /\ r.domain = last.domain}
        anyCase == {r \in websites : ~r.deleted /\ Lower(r.domain) = Lower(last.domain)}
        quiet == \A r \in stored :
                    \A i \in 1..Len(events) :
                        ~(/\ events[i].site = r.id
                          /\ events[i].etype = 1
                          /\ events[i].at >= now - last.days * 1440)
    IN /\ (last.op \in {"overview", "pages", "breakdown"}
            /\ last.env \notin {"connect_fails", "lookup_fails"}) =>
            /\ anyCase = {} =>
                  /\ last.err = "website not found"
                  /\ last.lookups = 1 /\ last.queries = 0 /\ last.out = <<>>
            /\ (stored # {} /\ quiet /\ last.env \in {"open", "ok"}) =>
                  /\ last.err \in {"nil", "invalid format"}
                  /\ last.format \in {"", "json"} => last.err = "nil"
                  /\ last.queries = 1
                  /\ last.op \in {"pages", "breakdown"} => last.out = <<>>
                  /\ last.op = "overview" =>
                        /\ Len(last.out) = 1
                        /\ last.out[1].TotalVisitors = 0
                        /\ last.out[1].TotalPageviews = 0
                        /\ last.out[1].TopPage = <<>>
                        /\ last.out[1].TopReferrer = <<>>
                        /\ DOMAIN last.out[1].BrowserDistribution = {}
                        /\ DOMAIN last.out[1].DeviceDistribution = {}
                        /\ DOMAIN last.out[1].CountryDistribution = {}
                        /\ last.out[1].AvgEngagement.n = 0
       /\ (last.op = "live" /\ last.db # "unreachable" /\ last.lookupOk
            /\ anyCase = {}) =>
            /\ pc = "returned"
            /\ ret = "website not found"
            /\ fetchCount = 0 /\ inFlight = 0 /\ ticker = "none"

\* a command run on a website that was soft-deleted by DeleteWebsite, in a store
\* that holds pageviews of that website
C8_Witness ==
    /\ last.op = "overview" /\ last.domain = "a.com" /\ last.env = "ok"
    /\ \E r \in websites : r.domain = "a.com" /\ r.deleted
    /\ \E i \in 1..Len(events) : events[i].site = 1 /\ events[i].etype = 1
                                    /\ events[i].at = now
    /\ last.err = "website not found" /\ last.queries = 0

\* a command that succeeded with zero values on a known website without events
C8_WitnessEmpty ==
    /\ last.op = "overview" /\ last.domain = "a.com" /\ last.env = "ok"
    /\ \E r \in websites : r.domain = "a.com" /\ ~r.deleted
    /\ events = <<>>
    /\ last.err = "nil" /\ last.queries = 1 /\ last.out[1].TotalPageviews = 0

\* the live command stopped by the lookup
C8_WitnessLive ==
    /\ last.op = "live" /\ last.domain = "b.com" /\ last.lookupOk
    /\ pc = "returned" /\ ret = "website not found" /\ fetchCount = 0

(***************************************************************************)
(* Website administration and the two domain lookups.                      *)
(***************************************************************************)
AdminDomains == Domains \cup {"", "a b.com"}

InitSites ==
    /\ LiveInit
    /\ websites = {}
    /\ sessions = SessionTable
    /\ events = <<>>
    /\ now = 0
    /\ last = NoOp

NextSites ==
    \/ \E d \in AdminDomains, dbOk \in BOOLEAN : CreateWebsite(d, dbOk)
    \/ \E d \in Domains, dbOk \in BOOLEAN : DeleteWebsite(d, dbOk)
    \/ \E d \in Domains, dbOk \in BOOLEAN : LookupWebsiteID(d, dbOk)
    \/ \E d \in Domains, w \in {<<>>, <<1>>, <<2>>}, dbOk \in BOOLEAN :
          LookupWebsite(d, w, dbOk)

SpecSites == InitSites /\ [][NextSites]_vars

\* C9: a lookup by domain, GetWebsiteIDByDomain or GetWebsiteByDomain, returns a
\* non-deleted website whose domain equals the argument up to letter case when
\* there is one, and 'not found' when there is none (soft-deleted rows never
\* match).
C9_LookupsCaseInsensitive ==
    (last.op \in {"GetWebsiteIDByDomain", "GetWebsiteByDomain"}
        /\ last.dbOk /\ last.websiteID = <<>>) =>
        LET match == {r \in websites : ~r.deleted /\ Lower(r.domain) = Lower(last.domain)}
        IN IF match = {}
           THEN last.err = "website not found"
           ELSE last.err = "nil" /\ \E r \in match : r.id = last.id

(***************************************************************************)
(* The HTTP aggregation handlers and the single-shot queries of the live   *)
(* snapshot and the bounce rates, against a store with one website.        *)
(***************************************************************************)
QueryNow == 3 * MinutesPerDay

QueryEventTables ==
    { <<>>,
      << EventRow(1, 1, PageView, "/", NULL, QueryNow) >>,
      << EventRow(1, 1, PageView, "/", NULL, QueryNow - 3),
         EventRow(1, 2, PageView, "/", "g.com", QueryNow),
         EventRow(1, 2, PageView, "/docs", "g.com", QueryNow) >>,
      << EventRow(1, 1, PageView, "/", NULL, 0) >>,
      << EventRow(1, 1, PageView, "/", NULL, QueryNow - 3),
         EventRow(1, 1, PageView, "/docs", NULL, QueryNow) >> }

QueryParams == {<<>>, <<-1>>, <<0>>, <<1>>, <<90>>, <<91>>, <<100>>, <<101>>, <<365>>, <<400>>}

\* GET /api/dashboard/timeseries/:website_id
ServeTimeSeries(idOk, daysParam, dbOk, nRows) ==
    /\ last' = HandleTimeSeries(idOk, daysParam, dbOk, nRows)
    /\ UNCHANGED <<liveVars, storeVars>>

\* GET /api/dashboard/pages/:website_id
ServeTopPages(idOk, limitParam, dbOk, nRows) ==
    /\ last' = HandleTopPages(idOk, limitParam, dbOk, nRows)
    /\ UNCHANGED <<liveVars, storeVars>>

\* GET /api/dashboard/stats/:website_id
ServeDashboardStats(idOk, dbOk, row) ==
    /\ last' = HandleDashboardStats(idOk, dbOk, row)
    /\ UNCHANGED <<liveVars, storeVars>>

\* one call of GetLiveStats, recorded in last
FetchLiveStats(site, fails) ==
    /\ last' \in {[op |-> "GetLiveStats", site |-> site, fails |-> fails,
                   err |-> r.err, data |-> r.data] : r \in GetLiveStats(site, fails)}
    /\ UNCHANGED <<liveVars, storeVars>>

\* one call of calculatePageBounceRate, which returns a float64 and no error
PageBounceRate(site, path, days, ok) ==
    /\ last' = [op |-> "calculatePageBounceRate", site |-> site, path |-> path,
                days |-> days, storeFailed |-> ~ok, err |-> "nil",
                value |-> calculatePageBounceRate(site, path, days, ok)]
    /\ UNCHANGED <<liveVars, storeVars>>

\* one call of calculateDimensionBounceRate, which returns a float64 and no error
DimensionBounceRate(site, dimension, value, days, ok) ==
    /\ last' = [op |-> "calculateDimensionBounceRate", site |-> site,
                dimension |-> dimension, name |-> value,
                days |-> days, storeFailed |-> ~ok, err |-> "nil",
                value |-> calculateDimensionBounceRate(site, dimension, value, days, ok)]
    /\ UNCHANGED <<liveVars, storeVars>>

\* one call of GetOverviewStats, recorded in last
FetchOverview(site, days, fails) ==
    /\ last' \in {[op |-> "GetOverviewStats", site |-> site, days |-> days,
                   fails |-> fails, err |-> r.err, stats |-> r.stats] :
                    r \in GetOverviewStats(site, days, fails)}
    /\ UNCHANGED <<liveVars, storeVars>>

\* the sets of failing sub-queries GetOverviewStats is run with
OverviewFailures ==
    {{}} \cup {{q} : q \in OverviewQueries}
         \cup {OverviewQueries \ {"visitors", "pageviews"},
                {"pageviews", "top_page"}, {"browsers", "engagement"}}

InitQuery ==
    /\ LiveInit
    /\ websites = {WebsiteRow(1, "a.com", FALSE)}
    /\ sessions = SessionTable
    /\ events \in QueryEventTables
    /\ now = QueryNow
    /\ last = NoOp

NextQuery ==
    \/ \E idOk \in BOOLEAN, q \in QueryParams, dbOk \in BOOLEAN, n \in {0, 2} :
          ServeTimeSeries(idOk, q, dbOk, n)
    \/ \E idOk \in BOOLEAN, q \in QueryParams, dbOk \in BOOLEAN, n \in {0, 2} :
          ServeTopPages(idOk, q, dbOk, n)
    \/ \E idOk \in BOOLEAN, dbOk \in BOOLEAN, row \in {<<0, 0, 0, 0>>, <<1, 4, 2, 50>>} :
          ServeDashboardStats(idOk, dbOk, row)
    \/ \E fails \in {{}, {"active"}, {"last_minute", "recent"}, {"top_page", "referrers"},
                     LiveQueries} :
          FetchLiveStats(1, fails)
    \/ \E path \in {"/", "/docs"}, days \in {1, 7}, ok \in BOOLEAN :
          PageBounceRate(1, path, days, ok)
    \/ \E dim \in {"country", "referrer"}, v \in {"US", "Unknown", "g.com"},
          days \in {1, 7}, ok \in BOOLEAN :
          DimensionBounceRate(1, dim, v, days, ok)
    \/ \E days \in {1, 7}, fails \in OverviewFailures : FetchOverview(1, days, fails)

SpecQuery == InitQuery /\ [][NextQuery]_vars

\* C6: HandleTimeSeries given days outside [1,365] and HandleTopPages given a
\* limit outside [1,100] answer with a validation error (status 400) and run no
\* store query; a query that is run carries the requested value, within the
\* contract, not a clamped one.
C6_HandlersValidateWindowAndLimit ==
    LET Contract == IF last.op = "HandleTimeSeries" THEN 1..365 ELSE 1..100
    IN last.op \in {"HandleTimeSeries", "HandleTopPages"} =>
          /\ (last.param # <<>> /\ last.param[1] \notin Contract) =>
                (last.status = 400 /\ ~last.queried)
          /\ last.queried =>
                /\ last.arg \in Contract
                /\ last.param # <<>> => last.arg = last.param[1]

\* C10: when the store query behind HandleDashboardStats, a count query of
\* GetLiveStats or a bounce-rate query fails, the caller gets an error outcome,
\* not a successful answer.
C10_StorageFailuresSurface ==
    /\ (last.op = "HandleDashboardStats" /\ last.storeFailed) => last.status >= 500
    /\ (last.op = "GetLiveStats"
          /\ last.fails \cap {"active", "last_minute", "recent"} # {}) => last.err # "nil"
    /\ (last.op \in {"calculatePageBounceRate", "calculateDimensionBounceRate"}
          /\ last.storeFailed) => last.err # "nil"

\* two maps (or sequences) with the same keys and values
SameMap(a, b) == DOMAIN a = DOMAIN b /\ \A k \in DOMAIN a : a[k] = b[k]

\* C11: GetOverviewStats fails exactly when the total-visitors or the
\* total-pageviews query fails; otherwise it succeeds, the totals are the counts
\* of the store, every field whose sub-query failed is nil, empty or 0, and all
\* the other fields are what a run without failures computes.
C11_OverviewFailuresIsolated ==
    last.op = "GetOverviewStats" =>
        LET pv == {i \in 1..Len(events) :
                      /\ events[i].site = last.site
                      /\ events[i].etype = 1
                      /\ events[i].at >= now - last.days * 1440}
            f == last.fails
        IN IF f \cap {"visitors", "pageviews"} # {}
           THEN last.err # "nil" /\ last.stats = <<>>
           ELSE /\ last.err = "nil"
                /\ Len(last.stats) = 1
                /\ last.stats[1].TotalVisitors = Cardinality({events[i].session : i \in pv})
                /\ last.stats[1].TotalPageviews = Cardinality(pv)
                /\ \E r \in GetOverviewStats(last.site, last.days, {}) :
                      LET got == last.stats[1]
                          ref == r.stats[1]
                      IN /\ got.TopPage = IF "top_page" \in f THEN <<>> ELSE ref.TopPage
                         /\ got.TopReferrer =
                               IF "top_referrer" \in f THEN <<>> ELSE ref.TopReferrer
                         /\ IF "browsers" \in f
                            THEN DOMAIN got.BrowserDistribution = {}
                            ELSE SameMap(got.BrowserDistribution, ref.BrowserDistribution)
                         /\ IF "devices" \in f
                            THEN DOMAIN got.DeviceDistribution = {}
                            ELSE SameMap(got.DeviceDistribution, ref.DeviceDistribution)
                         /\ IF "countries" \in f
                            THEN DOMAIN got.CountryDistribution = {}
                            ELSE SameMap(got.CountryDistribution, ref.CountryDistribution)
                         /\ got.AvgEngagement =
                               IF "engagement" \in f THEN FracZero ELSE ref.AvgEngagement

\* a run in which only the engagement query failed, on a store whose engagement
\* time is not zero: that field is 0 and the others are filled
C11_Witness ==
    /\ last.op = "GetOverviewStats" /\ last.fails = {"engagement"} /\ last.days = 7
    /\ getAverageEngagement(1, 7, TRUE).n > 0
    /\ last.err = "nil"
    /\ last.stats[1].AvgEngagement.n = 0
    /\ last.stats[1].TotalPageviews = 2
    /\ last.stats[1].TopPage # <<>>

(***************************************************************************)
(* The event store under inserts.  Rows of website 1 are what the queries  *)
(* read; the rows of website 2 fill every initial table to the same size.  *)
(***************************************************************************)
AggNow == 10 * MinutesPerDay + 600
AggOld == AggNow - 8 * MinutesPerDay

Other(n) == [i \in 1..n |-> EventRow(2, 1, PageView, "/x", NULL, AggNow)]

AggEventTables ==
    { Other(5),
      << EventRow(1, 1, PageView, "/a", NULL, AggNow - 30),
         EventRow(1, 1, PageView, "/a", NULL, AggNow - 20),
         EventRow(1, 1, PageView, "/b", NULL, AggNow - 10) >> \o Other(2),
      << EventRow(1, 1, PageView, "/a", NULL, AggNow - 30),
         EventRow(1, 2, PageView, "/a", "g.com", AggNow - 20),
         EventRow(1, 2, PageView, "/b", "g.com", AggNow - 10),
         EventRow(1, 3, PageView, "/a", NULL, AggNow - 4),
         EventRow(1, 3, PageView, "/a", NULL, AggNow) >>,
      << EventRow(1, 1, PageView, "/a", NULL, AggOld),
         EventRow(1, 1, PageView, "/b", NULL, AggNow - 30),
         EventRow(1, 2, 2, "/a", NULL, AggNow - 20),
         EventRow(1, 2, PageView, NULL, "g.com", AggNow),
         EventRow(1, 3, PageView, "/b", "t.co", AggNow) >> }

\* a row is written to website_event (the ingestion handler is not part of the
\* sources read here)
InsertEvent(session, etype, path, referrer, at) ==
    /\ Len(events) < MaxEvents
    /\ events' = Append(events, EventRow(1, session, etype, path, referrer, at))
    /\ last' = [op |-> "insert", session |-> session, etype |-> etype,
                path |-> path, at |-> at]
    /\ UNCHANGED <<liveVars, websites, sessions, now>>

\* SELECT get_avg_session_duration(...), recorded in last
CallGetAvgSessionDuration(p_days, flt) ==
    /\ last' = [op |-> "get_avg_session_duration", days |-> p_days, filters |-> flt,
                value |-> get_avg_session_duration(1, p_days, flt.country, flt.browser,
                                                   flt.device)]
    /\ UNCHANGED <<liveVars, storeVars>>

\* the filters on session attributes the SQL functions are called with
SessionFilterSets ==
    {FilterSet(NULL, NULL, NULL, NULL),
     FilterSet("US", NULL, NULL, NULL),
     FilterSet(NULL, "Chrome", NULL, NULL),
     FilterSet(NULL, "Chrome", "mobile", NULL)}

InitStore ==
    /\ LiveInit
    /\ websites = {WebsiteRow(1, "a.com", FALSE), WebsiteRow(2, "b.com", FALSE)}
    /\ sessions = SessionTable
    /\ events \in AggEventTables
    /\ now = AggNow
    /\ last = NoOp

\* the path and creation time of the rows that are inserted
InsertRows == {<<"/a", AggNow>>, <<"/b", AggNow>>, <<"/a", AggOld>>}

InsertNext ==
    \E sid \in SessionIds, t \in EventTypes, r \in InsertRows :
       InsertEvent(sid, t, r[1], NULL, r[2])

NextStore ==
    \/ InsertNext
    \/ FetchOverview(1, 7, {})
    \/ FetchLiveStats(1, {})
    \/ \E flt \in SessionFilterSets : CallGetAvgSessionDuration(7, flt)

SpecStore == InitStore /\ [][NextStore]_vars

\* the filter sets the SQL functions are called with
NoFilters == FilterSet(NULL, NULL, NULL, NULL)
FilterSets ==
    {NoFilters,
     FilterSet("US", NULL, NULL, NULL),
     FilterSet(NULL, "Chrome", NULL, NULL),
     FilterSet(NULL, NULL, "mobile", NULL),
     FilterSet(NULL, NULL, NULL, "/a"),
     FilterSet(NULL, "Chrome", "mobile", NULL)}

\* C12: a step that appends a custom (non-pageview) event leaves the results of
\* Overview, Top pages, Breakdown, the bounce rates, the bounce-session listing,
\* the map data and the live snapshot as they were; and a session with exactly
\* one pageview in the window is listed as bounced whatever custom events it has.
C12_OnlyPageviewsCount ==
    /\ [][(last'.op = "insert" /\ last'.etype # 1) =>
            /\ \A days \in {7} :
                  /\ GetOverviewStats(1, days, {})' = GetOverviewStats(1, days, {})
                  /\ GetTopPages(1, days, 10, TRUE, TRUE)'
                        = GetTopPages(1, days, 10, TRUE, TRUE)
                  /\ \A dim \in CliDimensions :
                        GetBreakdownStats(1, dim, days, 10, TRUE, TRUE)'
                           = GetBreakdownStats(1, dim, days, 10, TRUE, TRUE)
                  /\ \A p \in {"/a", "/b"} :
                        calculatePageBounceRate(1, p, days, TRUE)'
                           = calculatePageBounceRate(1, p, days, TRUE)
                  /\ get_bounce_sessions(1, days, NULL, NULL, NULL)'
                        = get_bounce_sessions(1, days, NULL, NULL, NULL)
                  /\ get_map_data(1, days, NULL, NULL, NULL, NULL)'
                        = get_map_data(1, days, NULL, NULL, NULL, NULL)
            /\ GetLiveStats(1, {})' = GetLiveStats(1, {})]_vars
    /\ [](\A sid \in SessionIds :
            Cardinality({i \in 1..Len(events) :
                            /\ events[i].site = 1 /\ events[i].session = sid
                            /\ events[i].etype = 1
                            /\ events[i].at >= now - 7 * 1440}) = 1
            => \A rows \in get_bounce_sessions(1, 7, NULL, NULL, NULL) :
                  \E k \in 1..Len(rows) : rows[k].session_id = sid)

\* a custom event was just appended for a session that has exactly one pageview,
\* and the session is listed as bounced
C12_Witness ==
    /\ last.op = "insert" /\ last.etype = 2 /\ last.at = AggNow
    /\ Cardinality({i \in 1..Len(events) :
                      events[i].site = 1 /\ events[i].session = last.session
                      /\ events[i].etype = 1}) = 1
    /\ \E rows \in get_bounce_sessions(1, 7, NULL, NULL, NULL) :
          \E k \in 1..Len(rows) : rows[k].session_id = last.session

\* the pageviews of website 1 in the last 7 days whose session passes the
\* filters flt, and those of one session
C15_Qualifying(flt) ==
    {i \in 1..Len(events) :
        /\ events[i].site = 1 /\ events[i].etype = 1 /\ events[i].at >= now - 7 * 1440
        /\ (flt.country = NULL \/ sessions[events[i].session].country = flt.country)
        /\ (flt.browser = NULL \/ sessions[events[i].session].browser = flt.browser)
        /\ (flt.device = NULL \/ sessions[events[i].session].device = flt.device)}

C15_QualifyingOf(flt, sid) == {i \in C15_Qualifying(flt) : events[i].session = sid}

\* C15: under every filter set, get_avg_session_duration is 0 when no session
\* has two or more qualifying pageviews, and otherwise its denominator is the
\* number of sessions that have; a step that inserts the first qualifying
\* pageview of a session leaves the average as it was, while that session is
\* then listed as bounced.
C15_SinglePageviewSessionsExcluded ==
    /\ [](\A flt \in SessionFilterSets :
            LET two == {sid \in SessionIds :
                           Cardinality(C15_QualifyingOf(flt, sid)) >= 2}
                avg == get_avg_session_duration(1, 7, flt.country, flt.browser, flt.device)
            IN IF two = {} THEN avg.n = 0
               ELSE /\ avg.d = Cardinality(two)
                    /\ avg.n = SumOver(two,
                          [sid \in two |->
                              LET T == {events[i].at : i \in C15_QualifyingOf(flt, sid)}
                              IN 60 * ((CHOOSE t \in T : \A u \in T : t >= u)
                                       - (CHOOSE t \in T : \A u \in T : t <= u))]))
    /\ [][\A flt \in SessionFilterSets, sid \in SessionIds :
            (/\ last'.op = "insert" /\ last'.etype = 1 /\ last'.session = sid
             /\ C15_QualifyingOf(flt, sid) = {}
             /\ C15_QualifyingOf(flt, sid)' # {})
            => /\ get_avg_session_duration(1, 7, flt.country, flt.browser, flt.device)'
                    = get_avg_session_duration(1, 7, flt.country, flt.browser, flt.device)
               /\ \A rows \in get_bounce_sessions(1, 7, flt.country, flt.browser, flt.device)' :
                     \E k \in 1..Len(rows) : rows[k].session_id = sid]_vars

\* the first qualifying pageview of a session was just inserted into a store
\* whose average duration is not zero
C15_Witness ==
    /\ last.op = "insert" /\ last.etype = 1 /\ last.at = AggNow
    /\ Cardinality(C15_QualifyingOf(NoFilters, last.session)) = 1
    /\ get_avg_session_duration(1, 7, NULL, NULL, NULL).n > 0

(***************************************************************************)
(* The aggregation queries over the store: one call of each of them,      *)
(* recorded in last, between inserts of rows into website_event.          *)
(***************************************************************************)
\* one call of GetTopPages, recorded in last
FetchTopPages(days, limit) ==
    /\ last' \in {[op |-> "GetTopPages", days |-> days, limit |-> limit,
                   err |-> r.err, pages |-> r.pages] :
                    r \in GetTopPages(1, days, limit, TRUE, TRUE)}
    /\ UNCHANGED <<liveVars, storeVars>>

\* one call of GetBreakdownStats, recorded in last
FetchBreakdownStats(dimension, days, limit) ==
    /\ last' \in {[op |-> "GetBreakdownStats", dimension |-> dimension, days |-> days,
                   limit |-> limit, err |-> r.err, items |-> r.items] :
                    r \in GetBreakdownStats(1, dimension, days, limit, TRUE, TRUE)}
    /\ UNCHANGED <<liveVars, storeVars>>

\* SELECT * FROM get_map_data(...), recorded in last
CallGetMapData(p_days, flt) ==
    /\ last' \in {[op |-> "get_map_data", days |-> p_days, filters |-> flt, rows |-> r] :
                    r \in get_map_data(1, p_days, flt.country, flt.browser, flt.device,
                                       flt.page)}
    /\ UNCHANGED <<liveVars, storeVars>>

\* SELECT * FROM get_bounce_sessions(...), recorded in last
CallGetBounceSessions(p_days, flt) ==
    /\ last' \in {[op |-> "get_bounce_sessions", days |-> p_days, filters |-> flt,
                   rows |-> r] :
                    r \in get_bounce_sessions(1, p_days, flt.country, flt.browser,
                                              flt.device)}
    /\ UNCHANGED <<liveVars, storeVars>>

\* SELECT * FROM get_page_engagement(...), recorded in last
CallGetPageEngagement(p_days, p_limit, flt) ==
    /\ last' \in {[op |-> "get_page_engagement", days |-> p_days, limit |-> p_limit,
                   filters |-> flt, rows |-> r] :
                    r \in get_page_engagement(1, p_days, p_limit, flt.country,
                                              flt.browser, flt.device)}
    /\ UNCHANGED <<liveVars, storeVars>>

\* the limits the queries are called with
AggLimits == {1, 2, 10}

AggQueries ==
    \/ \E limit \in AggLimits : FetchTopPages(7, limit)
    \/ \E dim \in {"country", "referrer", "os"}, limit \in AggLimits :
          FetchBreakdownStats(dim, 7, limit)
    \/ \E p \in {"/a", "/b"} : PageBounceRate(1, p, 7, TRUE)
    \/ \E v \in {"US", "DE", "Unknown"} : DimensionBounceRate(1, "country", v, 7, TRUE)
    \/ DimensionBounceRate(1, "browser", "Chrome", 7, TRUE)
    \/ \E dim \in SqlDimensions, flt \in FilterSets : CallGetBreakdown(dim, 7, 10, flt)
    \/ \E dim \in {"country", "page"}, limit \in {1, 2} :
          CallGetBreakdown(dim, 7, limit, NoFilters)
    \/ \E flt \in FilterSets : CallGetMapData(7, flt)
    \/ \E flt \in SessionFilterSets : CallGetBounceSessions(7, flt)
    \/ \E flt \in SessionFilterSets, limit \in {1, 10} : CallGetPageEngagement(7, limit, flt)

\* the queries only read the store, so a query that follows another query
\* reaches no state that the same query does not reach right after the insert
NextAgg ==
    \/ InsertNext
    \/ (last.op \in {"none", "insert"} /\ AggQueries)

SpecAgg == InitStore /\ [][NextAgg]_vars

\* C13: the bounce rate a page or a dimension value is reported with is
\* 100 * bounced sessions / sessions of the scope rounded to one decimal, it is
\* 0 when the scope has no session, and it lies between 0 and 100.
C13_BounceRateRoundedToOneDecimal ==
    (last.op \in {"calculatePageBounceRate", "calculateDimensionBounceRate"}
     /\ ~last.storeFailed) =>
        LET win == {i \in 1..Len(events) :
                        /\ events[i].site = last.site /\ events[i].etype = 1
                        /\ events[i].at >= now - last.days * 1440}
            scope == IF last.op = "calculatePageBounceRate"
                     THEN {i \in win : events[i].path = last.path}
                     ELSE {i \in win : DimColumn(events[i], last.dimension) = last.name}
            S == {events[i].session : i \in scope}
            B == {sid \in S : Cardinality({i \in win : events[i].session = sid}) = 1}
        IN /\ last.value.n >= 0 /\ last.value.n <= 100 * last.value.d
           /\ S = {} => last.value.n = 0
           /\ S # {} => 10 * last.value.n
                          = ((2000 * Cardinality(B) + Cardinality(S))
                                \div (2 * Cardinality(S))) * last.value.d

\* C14: every row GetTopPages returns has pageviews = the number of in-window
\* pageview events of the path and unique_visitors = the number of distinct
\* sessions among them, with 1 <= unique_visitors <= pageviews; its bounce rate
\* counts exactly the sessions of the path that have one in-window pageview in
\* all, so a session with two or more in-window pageviews bounces on no page.
C14_TopPagesCountsAndBounce ==
    (last.op = "GetTopPages" /\ last.err = "nil") =>
        LET win == {i \in 1..Len(events) :
                        /\ events[i].site = 1 /\ events[i].etype = 1
                        /\ events[i].at >= now - last.days * 1440}
        IN \A k \in 1..Len(last.pages) :
              LET row == last.pages[k]
                  of == {i \in win : events[i].path = row.Path}
                  S == {events[i].session : i \in of}
                  one == {sid \in S : Cardinality({i \in win : events[i].session = sid}) = 1}
              IN /\ row.Path # NULL
                 /\ row.Pageviews = Cardinality(of)
                 /\ row.UniqueVisitors = Cardinality(S)
                 /\ 1 <= row.UniqueVisitors /\ row.UniqueVisitors <= row.Pageviews
                 /\ row.BounceRate.n * Cardinality(S)
                       = 100 * Cardinality(one) * row.BounceRate.d
                 /\ (one = {} => row.BounceRate.n = 0)

\* Top pages was asked of a store whose pageviews are (/a, /a, /b) of one
\* session, and answered /a with 2, /b with 1 and bounce rate 0 for both
C14_Witness ==
    /\ last.op = "GetTopPages" /\ last.err = "nil" /\ last.limit = 10
    /\ {<<events[i].session, events[i].path>> :
            i \in {j \in 1..Len(events) : events[j].site = 1 /\ events[j].etype = 1}}
          = {<<1, "/a">>, <<1, "/b">>}
    /\ Cardinality({j \in 1..Len(events) : events[j].site = 1 /\ events[j].etype = 1}) = 3
    /\ Len(last.pages) = 2
    /\ last.pages[1].Path = "/a" /\ last.pages[1].Pageviews = 2
    /\ last.pages[1].UniqueVisitors = 1 /\ last.pages[1].BounceRate.n = 0
    /\ last.pages[2].Path = "/b" /\ last.pages[2].Pageviews = 1
    /\ last.pages[2].UniqueVisitors = 1 /\ last.pages[2].BounceRate.n = 0

\* C16: get_bounce_sessions lists exactly the sessions that have one pageview
\* within the window and the filters, one row for each, that row being the
\* pageview in the window; the rows are ordered by creation time, newest first.
C16_BounceSessionsExactlyOnce ==
    last.op = "get_bounce_sessions" =>
        LET flt == last.filters
            win == {i \in 1..Len(events) :
                      /\ events[i].site = 1 /\ events[i].etype = 1
                      /\ events[i].at >= now - last.days * 1440
                      /\ (flt.country = NULL \/ sessions[events[i].session].country = flt.country)
                      /\ (flt.browser = NULL \/ sessions[events[i].session].browser = flt.browser)
                      /\ (flt.device = NULL \/ sessions[events[i].session].device = flt.device)}
            one == {sid \in SessionIds :
                      Cardinality({i \in win : events[i].session = sid}) = 1}
            rows == last.rows
        IN /\ {rows[k].session_id : k \in 1..Len(rows)} = one
           /\ Len(rows) = Cardinality(one)
           /\ \A k \in 1..Len(rows) :
                 \E i \in win : /\ events[i].session = rows[k].session_id
                                /\ events[i].at = rows[k].created_at
           /\ \A k \in 1..Len(rows) - 1 : rows[k].created_at >= rows[k + 1].created_at

\* an event passes every filter of flt that is set
C17_PassesAll(e, flt) ==
    /\ (flt.country = NULL \/ sessions[e.session].country = flt.country)
    /\ (flt.browser = NULL \/ sessions[e.session].browser = flt.browser)
    /\ (flt.device = NULL \/ sessions[e.session].device = flt.device)
    /\ (flt.page = NULL \/ e.path = flt.page)

\* C17: filters compose with AND and none that is set is ignored: the rows of
\* get_breakdown (any dimension, the filter on the dimension's own attribute
\* included) and of get_map_data count exactly the in-window pageviews that
\* pass every set filter, and an unset filter excludes nothing.
C17_FiltersComposeAndApply ==
    /\ (last.op = "get_breakdown" /\ last.err = "nil" /\ last.limit = 10) =>
          LET dflt == IF last.dimension = "referrer" THEN "Direct / None" ELSE "Unknown"
              idx == {i \in 1..Len(events) :
                        /\ events[i].site = 1 /\ events[i].etype = 1
                        /\ events[i].at >= CurrentDate - last.days * 1440
                        /\ (last.dimension = "page" => events[i].path # NULL)
                        /\ C17_PassesAll(events[i], last.filters)}
              Name(i) == Coalesce(BreakdownColumn(events[i], last.dimension), dflt)
          IN /\ {last.rows[k].name : k \in 1..Len(last.rows)} = {Name(i) : i \in idx}
             /\ \A k \in 1..Len(last.rows) :
                   last.rows[k].count
                      = Cardinality({i \in idx : Name(i) = last.rows[k].name})
    /\ last.op = "get_map_data" =>
          LET idx == {i \in 1..Len(events) :
                        /\ events[i].site = 1 /\ events[i].etype = 1
                        /\ events[i].at >= now - last.days * 1440
                        /\ C17_PassesAll(events[i], last.filters)}
              Name(i) == Coalesce(sessions[events[i].session].country, "Unknown")
          IN /\ {last.rows[k].country : k \in 1..Len(last.rows)} = {Name(i) : i \in idx}
             /\ \A k \in 1..Len(last.rows) :
                   last.rows[k].visitors
                      = Cardinality({events[i].session :
                                        i \in {j \in idx : Name(j) = last.rows[k].country}})

\* C18: get_map_data has one row for each country of the sessions with a
\* pageview in the window and filters, with the number of those sessions and
\* the percentage of the total rounded to two decimals (kept in hundredths);
\* the visitor counts sum to the total, so the percentages sum to 100 within
\* half a hundredth for each row; with no session there is no row at all.
C18_MapDataPercentages ==
    last.op = "get_map_data" =>
        LET flt == last.filters
            idx == {i \in 1..Len(events) :
                      /\ events[i].site = 1 /\ events[i].etype = 1
                      /\ events[i].at >= now - last.days * 1440
                      /\ (flt.country = NULL \/ sessions[events[i].session].country = flt.country)
                      /\ (flt.browser = NULL \/ sessions[events[i].session].browser = flt.browser)
                      /\ (flt.device = NULL \/ sessions[events[i].session].device = flt.device)
                      /\ (flt.page = NULL \/ events[i].path = flt.page)}
            visitors == {events[i].session : i \in idx}
            total == Cardinality(visitors)
            Country(sid) == IF sessions[sid].country = NULL THEN "Unknown"
                            ELSE sessions[sid].country
            rows == last.rows
            K == 1..Len(rows)
        IN /\ \A j, k \in K : rows[j].country = rows[k].country => j = k
           /\ {rows[k].country : k \in K} = {Country(sid) : sid \in visitors}
           /\ \A k \in K :
                 /\ rows[k].visitors
                       = Cardinality({sid \in visitors : Country(sid) = rows[k].country})
                 /\ 2 * (rows[k].percentage * total - 10000 * rows[k].visitors) <= total
                 /\ 2 * (10000 * rows[k].visitors - rows[k].percentage * total) < total
           /\ SumOver(K, [k \in K |-> rows[k].visitors]) = total
           /\ total > 0 =>
                 LET sum == SumOver(K, [k \in K |-> rows[k].percentage])
                 IN 2 * (sum - 10000) <= Len(rows) /\ 2 * (10000 - sum) <= Len(rows)
           /\ total = 0 => rows = <<>>

\* the map data of three visitors from three countries: 33.33 each, 99.99 in all
C18_Witness ==
    /\ last.op = "get_map_data" /\ last.filters = NoFilters
    /\ Len(last.rows) = 3
    /\ \A k \in 1..3 : last.rows[k].visitors = 1 /\ last.rows[k].percentage = 3333

\* the map data of a store without any pageview that passes the filters
C18_WitnessEmpty ==
    /\ last.op = "get_map_data" /\ last.rows = <<>>
    /\ \A i \in 1..Len(events) : events[i].site # 1

\* C19: GetTopPages, GetBreakdownStats and get_breakdown return
\* min(limit, number of distinct group values) rows, in non-increasing order of
\* the count they are ordered by, and no group that is left out has a higher
\* count than a group that is returned.
C19_TopNTruncatedAndOrdered ==
    LET win == {i \in 1..Len(events) :
                    /\ events[i].site = 1 /\ events[i].etype = 1
                    /\ events[i].at >= now - 7 * 1440}
        Smaller(a, b) == IF a <= b THEN a ELSE b
    IN /\ (last.op = "GetTopPages" /\ last.err = "nil" /\ last.days = 7) =>
             LET rows == last.pages
                 idx == {i \in win : events[i].path # NULL}
                 groups == {events[i].path : i \in idx}
                 Cnt(g) == Cardinality({i \in idx : events[i].path = g})
                 shown == {rows[k].Path : k \in 1..Len(rows)}
             IN /\ Len(rows) = Smaller(last.limit, Cardinality(groups))
                /\ Cardinality(shown) = Len(rows) /\ shown \subseteq groups
                /\ \A k \in 1..Len(rows) - 1 : rows[k].Pageviews >= rows[k + 1].Pageviews
                /\ \A g \in groups \ shown : \A h \in shown : Cnt(g) <= Cnt(h)
       /\ (last.op = "GetBreakdownStats" /\ last.err = "nil" /\ last.days = 7) =>
             LET rows == last.items
                 Col(i) == DimColumn(events[i], last.dimension)
                 groups == {Col(i) : i \in win}
                 Cnt(g) == Cardinality({events[i].session : i \in {j \in win : Col(j) = g}})
                 shown == {rows[k].name : k \in 1..Len(rows)}
             IN /\ Len(rows) = Smaller(last.limit, Cardinality(groups))
                /\ Cardinality(shown) = Len(rows) /\ shown \subseteq groups
                /\ \A k \in 1..Len(rows) - 1 : rows[k].visitors >= rows[k + 1].visitors
                /\ \A g \in groups \ shown : \A h \in shown : Cnt(g) <= Cnt(h)
       /\ (last.op = "get_breakdown" /\ last.err = "nil") =>
             /\ \A k \in 1..Len(last.rows) - 1 :
                   last.rows[k].count >= last.rows[k + 1].count
             /\ Len(last.rows) <= last.limit
             /\ last.filters = NoFilters =>
                   LET rows == last.rows
                       dflt == IF last.dimension = "referrer" THEN "Direct / None"
                               ELSE "Unknown"
                       idx == {i \in 1..Len(events) :
                                 /\ events[i].site = 1 /\ events[i].etype = 1
                                 /\ events[i].at >= CurrentDate - last.days * 1440
                                 /\ (last.dimension = "page" => events[i].path # NULL)}
                       Col(i) == Coalesce(BreakdownColumn(events[i], last.dimension), dflt)
                       groups == {Col(i) : i \in idx}
                       Cnt(g) == Cardinality({i \in idx : Col(i) = g})
                       shown == {rows[k].name : k \in 1..Len(rows)}
                   IN /\ Len(rows) = Smaller(last.limit, Cardinality(groups))
                      /\ Cardinality(shown) = Len(rows) /\ shown \subseteq groups
                      /\ \A g \in groups \ shown : \A h \in shown : Cnt(g) <= Cnt(h)

\* a breakdown with limit 2 over three distinct values returned the two with
\* the most visitors, the first with more visitors than the second
C19_Witness ==
    /\ last.op = "GetBreakdownStats" /\ last.err = "nil" /\ last.limit = 2
    /\ Cardinality({DimColumn(events[i], last.dimension) : i \in Pageviews(1, 7)}) = 3
    /\ Len(last.items) = 2
    /\ last.items[1].visitors > last.items[2].visitors

\* top pages with limit 1 over two paths returned the path with more pageviews
C19_WitnessTopPages ==
    /\ last.op = "GetTopPages" /\ last.err = "nil" /\ last.limit = 1
    /\ Len(last.pages) = 1 /\ last.pages[1].Path = "/a" /\ last.pages[1].Pageviews = 2
    /\ \E i \in Pageviews(1, 7) : events[i].path = "/b"

\* get_breakdown with limit 2 over three countries returned two rows
C19_WitnessGetBreakdown ==
    /\ last.op = "get_breakdown" /\ last.dimension = "country" /\ last.limit = 2
    /\ Len(last.rows) = 2 /\ last.rows[1].count > last.rows[2].count
    /\ \A sid \in SessionIds : \E i \in Pageviews(1, 7) : events[i].session = sid

(***************************************************************************)
(* The identity deriver.  An instant is a calendar record; a digest is     *)
(* modelled by the value it is computed from, so that two digests are      *)
(* equal exactly when their inputs are (the hash is collision-free).       *)
(***************************************************************************)
Instant(month, day, hour, minute) ==
    [month |-> month, day |-> day, hour |-> hour, minute |-> minute]

\* the start of the period an instant lies in; a period that is not hour or
\* month is day
bucket(t, period) ==
    CASE period = "hour" -> Instant(t.month, t.day, t.hour, 0)
      [] period = "month" -> Instant(t.month, 1, 0, 0)
      [] OTHER -> Instant(t.month, t.day, 0, 0)

\* (mutant) the instant is hashed without being truncated
hashDateNoTruncation(t, period) == <<"md5", t>>

\* the rotating salt: the digest of the truncated instant
hashDate(t, period) == <<"md5", bucket(t, period)>>

\* the digest of the parts, in UUID shape
generateUUID(parts) == <<"uuid", parts>>

deriveIdentity(websiteId, clientIP, userAgent, t, period) ==
    generateUUID(<<websiteId, clientIP, userAgent, hashDate(t, period)>>)

\* one call of deriveIdentity, recorded in last together with the call before
DeriveIdentity(websiteId, clientIP, userAgent, t, period) ==
    /\ last' = [op |-> "deriveIdentity", websiteId |-> websiteId,
                clientIP |-> clientIP, userAgent |-> userAgent, at |-> t,
                period |-> period,
                id |-> deriveIdentity(websiteId, clientIP, userAgent, t, period),
                before |-> IF last.op = "deriveIdentity"
                           THEN <<[websiteId |-> last.websiteId,
                                   clientIP |-> last.clientIP,
                                   userAgent |-> last.userAgent, at |-> last.at,
                                   period |-> last.period, id |-> last.id]>>
                           ELSE <<>>]
    /\ UNCHANGED <<liveVars, storeVars>>

\* the inputs of the calls: visitors (empty components included), instants
\* around the boundaries of hours, days and months, and period names
Visitors == {<<"w1", "192.168.1.1", "Mozilla">>, <<"w1", "", "">>,
             <<"w2", "192.168.1.1", "Mozilla">>}
Instants == {Instant(m, d, h, mi) : m \in {11, 12}, d \in {1, 5}, h \in {0, 14},
                                    mi \in {0, 30}}
Periods == {"hour", "day", "month", "unknown"}

InitIdentity ==
    /\ LiveInit
    /\ websites = {}
    /\ sessions = SessionTable
    /\ events = <<>>
    /\ now = 0
    /\ last = NoOp

NextIdentity ==
    \E v \in Visitors, t \in Instants, period \in Periods :
       DeriveIdentity(v[1], v[2], v[3], t, period)

SpecIdentity == InitIdentity /\ [][NextIdentity]_vars

\* two instants lie in the same rotation window of a period
C20_SameWindow(a, b, period) ==
    /\ a.month = b.month
    /\ (period = "month"
        \/ (a.day = b.day /\ (period # "hour" \/ a.hour = b.hour)))

\* C20: two calls of deriveIdentity for the same website, client IP and user
\* agent (empty ones included) under the same period return the same SessionId
\* if and only if their instants lie in the same rotation window (hour, day or
\* month; any other period name rotates daily, with the identities of "day");
\* calls with identical inputs return identical output.
C20_IdentityStableWithinWindow ==
    (last.op = "deriveIdentity" /\ last.before # <<>>) =>
        LET a == last.before[1]
            b == last
        IN /\ (a.websiteId = b.websiteId /\ a.clientIP = b.clientIP
               /\ a.userAgent = b.userAgent /\ a.period = b.period)
                 => (a.id = b.id <=> C20_SameWindow(a.at, b.at, b.period))
           /\ b.period \notin {"hour", "day", "month"}
                 => b.id = deriveIdentity(b.websiteId, b.clientIP, b.userAgent,
                                          b.at, "day")

\* two calls for a visitor without client IP and user agent, at different
\* instants of one day under the day period, returned the same identity
C20_Witness ==
    /\ last.op = "deriveIdentity" /\ last.before # <<>>
    /\ last.clientIP = "" /\ last.before[1].clientIP = ""
    /\ last.websiteId = last.before[1].websiteId
    /\ last.period = "day" /\ last.before[1].period = "day"
    /\ last.at.hour # last.before[1].at.hour
    /\ last.at.day = last.before[1].at.day /\ last.at.month = last.before[1].at.month
    /\ last.id = last.before[1].id

\* two calls for the same visitor across a day boundary returned different
\* identities
C20_WitnessRotated ==
    /\ last.op = "deriveIdentity" /\ last.before # <<>>
    /\ last.websiteId = last.before[1].websiteId
    /\ last.clientIP = last.before[1].clientIP
    /\ last.userAgent = last.before[1].userAgent
    /\ last.period = "unknown" /\ last.before[1].period = "unknown"
    /\ last.at.day # last.before[1].at.day
    /\ last.id # last.before[1].id

(***************************************************************************)
(* The event classifier.  A user agent is modelled by the set of the       *)
(* tokens its string contains.                                             *)
(***************************************************************************)
UaTokens == {"Edg", "Chrome", "Safari", "Firefox", "iPhone", "Mac OS X", "Android",
             "Linux", "Windows", "Mobile", "Custom Browser"}

\* the ordered rule tables, each rule <<token, label>>
BrowserRules ==
    << <<"Edg", "Edge">>, <<"Chrome", "Chrome">>, <<"Firefox", "Firefox">>,
       <<"Safari", "Safari">> >>

OsRules ==
    << <<"iPhone", "iOS">>, <<"Android", "Android">>, <<"Windows", "Windows">>,
       <<"Mac OS X", "macOS">>, <<"Linux", "Linux">> >>

MobileMarkers == {"Mobile", "iPhone", "Android"}

\* (mutant) the table is evaluated to its end: the last matching rule wins
LastMatch(ua, rules) ==
    LET hits == {k \in 1..Len(rules) : rules[k][1] \in ua}
    IN IF hits = {} THEN "Unknown"
       ELSE rules[CHOOSE k \in hits : \A j \in hits : k >= j][2]

\* the table is evaluated top to bottom and the first matching rule wins
FirstMatch(ua, rules) ==
    LET hits == {k \in 1..Len(rules) : rules[k][1] \in ua}
    IN IF hits = {} THEN "Unknown"
       ELSE rules[CHOOSE k \in hits : \A j \in hits : k <= j][2]

parseUserAgent(ua) ==
    [browser |-> FirstMatch(ua, BrowserRules),
     os |-> FirstMatch(ua, OsRules),
     device |-> IF ua \cap MobileMarkers # {} THEN "mobile" ELSE "desktop"]

\* one call of parseUserAgent, recorded in last
ParseUserAgent(ua) ==
    /\ last' = [op |-> "parseUserAgent", ua |-> ua, result |-> parseUserAgent(ua)]
    /\ UNCHANGED <<liveVars, storeVars>>

NextClassify == \E ua \in SUBSET UaTokens : ParseUserAgent(ua)

SpecClassify == InitIdentity /\ [][NextClassify]_vars

\* C21: the classification is first-match-wins with the more specific token
\* first: Edge and Chrome tokens give Edge, Chrome and Safari give Chrome,
\* iPhone and Mac OS X give iOS, Android and Linux (without the iPhone token,
\* which is tested first) give Android; the device is
\* mobile exactly when a mobile marker is present; a user agent without a
\* recognized token gives (Unknown, Unknown, desktop).
C21_FirstMatchWins ==
    last.op = "parseUserAgent" =>
        LET ua == last.ua
            r == last.result
        IN /\ "Edg" \in ua => r.browser = "Edge"
           /\ ("Chrome" \in ua /\ "Edg" \notin ua) => r.browser = "Chrome"
           /\ ("iPhone" \in ua /\ "Mac OS X" \in ua) => r.os = "iOS"
           /\ "iPhone" \in ua => r.os = "iOS"
           /\ ("Android" \in ua /\ "Linux" \in ua /\ "iPhone" \notin ua)
                 => r.os = "Android"
           /\ r.device = "mobile"
                 <=> ("Mobile" \in ua \/ "iPhone" \in ua \/ "Android" \in ua)
           /\ r.device \in {"mobile", "desktop"}
           /\ ua \subseteq {"Custom Browser"}
                 => r = [browser |-> "Unknown", os |-> "Unknown", device |-> "desktop"]

\* an Edge user agent on Windows, which also has the Chrome and Safari tokens
C21_Witness ==
    /\ last.op = "parseUserAgent"
    /\ last.ua = {"Windows", "Chrome", "Safari", "Edg"}
    /\ last.result = [browser |-> "Edge", os |-> "Windows", device |-> "desktop"]

\* Safari on an iPhone, whose user agent also says Mac OS X
C21_WitnessPhone ==
    /\ last.op = "parseUserAgent"
    /\ last.ua = {"iPhone", "Mac OS X", "Mobile", "Safari"}
    /\ last.result = [browser |-> "Safari", os |-> "iOS", device |-> "mobile"]

\* the empty user agent
C21_WitnessEmpty ==
    /\ last.op = "parseUserAgent" /\ last.ua = {}
    /\ last.result = [browser |-> "Unknown", os |-> "Unknown", device |-> "desktop"]

(***************************************************************************)
(* GeoIP lookup (internal/geoip/geoip.go).                                 *)
(***************************************************************************)
\* the strings LookupIP is called with, and net.ParseIP on them
IpStrings == {"", "999.999.999.999", "not an ip", "8.8.8.8", "127.0.0.1", "2001:db8::1"}

ParseIP(ipStr) == IF ipStr \in {"8.8.8.8", "127.0.0.1", "2001:db8::1"} THEN <<ipStr>> ELSE <<>>

\* what reader.City(ip) returns: an error, or a record with the country's ISO
\* code, the city's English name (<<>> when the Names map has no "en" key) and
\* the list of subdivisions, each with its English name
CityRecord(isoCode, city, subdivisions) ==
    [err |-> FALSE, isoCode |-> isoCode, city |-> city, subdivisions |-> subdivisions]

CityResults ==
    {[err |-> TRUE]} \cup
    {CityRecord(iso, city, subs) :
        iso \in {"", "US"}, city \in {<<>>, <<"Mountain View">>},
        subs \in {<<>>, <<<<>>>>, <<<<"California">>>>, <<<<"California">>, <<"Santa Clara">>>>}}

\* names["en"] of a map[string]string: the empty string when the key is absent
NamesEn(names) == IF names = <<>> THEN "" ELSE names[1]

\* LookupIP (54-79): the outcome, panicked when the function does not return
LookupIP(readerLoaded, ipStr, lookup) ==
    LET sentinel == [panicked |-> FALSE, country |-> "Unknown", city |-> "", region |-> ""]
    IN IF ~readerLoaded THEN sentinel
       ELSE IF ParseIP(ipStr) = <<>> THEN sentinel
       ELSE IF lookup.err THEN sentinel
       ELSE IF Len(lookup.subdivisions) = 0
       THEN [panicked |-> TRUE, country |-> "", city |-> "", region |-> ""]
       ELSE [panicked |-> FALSE,
             country |-> IF lookup.isoCode = "" THEN "Unknown" ELSE lookup.isoCode,
             city |-> NamesEn(lookup.city),
             region |-> NamesEn(lookup.subdivisions[1])]

\* one call of LookupIP, recorded in last; the reader is nil when Init could
\* not load the database
CallLookupIP(readerLoaded, ipStr, lookup) ==
    /\ last' = [op |-> "LookupIP", readerLoaded |-> readerLoaded, ip |-> ipStr,
                lookup |-> lookup, result |-> LookupIP(readerLoaded, ipStr, lookup)]
    /\ UNCHANGED <<liveVars, storeVars>>

NextGeo ==
    \E readerLoaded \in BOOLEAN, ipStr \in IpStrings, lookup \in CityResults :
       CallLookupIP(readerLoaded, ipStr, lookup)

SpecGeo == InitIdentity /\ [][NextGeo]_vars

\* C22: LookupIP returns normally for every input and reader state, a found
\* record without subdivision or without English city name included, and on a
\* failure (no database, unparseable IP, lookup error) the result is the
\* sentinel: country empty or "Unknown", city and region empty.
C22_LookupNeverRaises ==
    last.op = "LookupIP" =>
        /\ ~last.result.panicked
        /\ (~last.readerLoaded \/ last.ip \notin {"8.8.8.8", "127.0.0.1", "2001:db8::1"}
            \/ last.lookup.err)
              => /\ last.result.country \in {"", "Unknown"}
                 /\ last.result.city = "" /\ last.result.region = ""

(***************************************************************************)
(* Website sync (analytics.go, SyncWebsitesFromFile).  A row of the table  *)
(* carries its name here, which the sync updates.                          *)
(***************************************************************************)
WebsiteRecord(id, domain, deleted, name) ==
    [id |-> id, domain |-> domain, deleted |-> deleted, name |-> name]

\* an entry of syncFile.Websites
SyncEntry(domain, name) == [domain |-> domain, name |-> name]

SyncStats(created, updated, errors) ==
    [Created |-> created, Updated |-> updated, Skipped |-> 0, Errors |-> errors]

\* uuid.New() inside the transaction: an id no row of tbl has
NewIdIn(tbl) == CHOOSE i \in 1..(Cardinality(tbl) + 1) : \A r \in tbl : r.id # i

\* the body of the loop (2096-2136) for one entry, on the transaction's view
\* tbl of the table: the possible [tbl, stats] after it.  The check query
\* returns one row for every row whose domain matches, deleted or not, and
\* QueryRow scans the first of them, in no specified order; with no such row
\* Scan fails with sql.ErrNoRows
SyncOne(tbl, ws, stats) ==
    LET rows == {r \in tbl : Lower(r.domain) = Lower(ws.domain)}
        exists == \E r \in rows : ~r.deleted
    IN IF rows = {}
       THEN {[tbl |-> tbl,
              stats |-> SyncStats(stats.Created, stats.Updated,
                                  Append(stats.Errors,
                                         <<"Failed to check website", ws.domain>>))]}
       ELSE IF exists
       THEN {[tbl |-> (tbl \ {r}) \cup {WebsiteRecord(r.id, r.domain, r.deleted, ws.name)},
              stats |-> SyncStats(stats.Created, stats.Updated + 1, stats.Errors)] :
                r \in rows}
       ELSE {[tbl |-> tbl \cup {WebsiteRecord(NewIdIn(tbl), ws.domain, FALSE, ws.name)},
              stats |-> SyncStats(stats.Created + 1, stats.Updated, stats.Errors)]}

\* for _, ws := range syncFile.Websites
RECURSIVE SyncLoop(_, _, _)
SyncLoop(tbl, entries, stats) ==
    IF entries = <<>> THEN {[tbl |-> tbl, stats |-> stats]}
    ELSE UNION {SyncLoop(s.tbl, Tail(entries), s.stats) :
                  s \in SyncOne(tbl, Head(entries), stats)}

\* (mutant) the transaction is committed in a dry run too
SyncCommitAlways(tbl, dryRun) == tbl

\* lines 2138-2142 and the deferred Rollback: the table after the call
SyncCommit(tbl, dryRun) == IF dryRun THEN websites ELSE tbl

\* SyncWebsitesFromFile (2078-2145): the possible [table, stats] outcomes
SyncWebsitesFromFile(syncFile, dryRun, merge) ==
    LET start == IF merge THEN websites
                 ELSE {WebsiteRecord(r.id, r.domain, TRUE, r.name) : r \in websites}
    IN {[table |-> SyncCommit(s.tbl, dryRun), stats |-> s.stats] :
          s \in SyncLoop(start, syncFile, SyncStats(0, 0, <<>>))}

\* one call of SyncWebsitesFromFile, recorded in last with the table before it
RunWebsiteSync(syncFile, dryRun, merge) ==
    /\ \E out \in SyncWebsitesFromFile(syncFile, dryRun, merge) :
          /\ Cardinality(out.table) <= MaxWebsites
          /\ websites' = out.table
          /\ last' = [op |-> "SyncWebsitesFromFile", file |-> syncFile,
                      dryRun |-> dryRun, merge |-> merge, stats |-> out.stats,
                      err |-> "nil", before |-> websites]
    /\ UNCHANGED <<liveVars, sessions, events, now>>

\* the files of the model: one or two entries
SyncEntries == {SyncEntry("a.com", "New"), SyncEntry("A.com", "New"),
                SyncEntry("b.com", "New")}
SyncFiles == {<<e>> : e \in SyncEntries} \cup {<<e, f>> : e, f \in SyncEntries}

\* the tables a sync starts from
SyncTables ==
    { {},
      {WebsiteRecord(1, "a.com", FALSE, "Old")},
      {WebsiteRecord(1, "a.com", TRUE, "Old")},
      {WebsiteRecord(1, "a.com", TRUE, "Old"), WebsiteRecord(2, "a.com", FALSE, "Old")},
      {WebsiteRecord(1, "a.com", FALSE, "Old"), WebsiteRecord(2, "b.com", FALSE, "Old")} }

InitSync ==
    /\ LiveInit
    /\ websites \in SyncTables
    /\ sessions = SessionTable
    /\ events = <<>>
    /\ now = 0
    /\ last = NoOp

NextSync ==
    \E f \in SyncFiles, dryRun \in BOOLEAN, merge \in BOOLEAN :
       RunWebsiteSync(f, dryRun, merge)

SpecSync == InitSync /\ [][NextSync]_vars

\* C23: after a dry run of the sync, in merge mode and in replace mode, the
\* website table is as it was before the call, and the Created and Updated
\* counts are those a real run on that table returns.
C23_DryRunAppliesNothing ==
    (last.op = "SyncWebsitesFromFile" /\ last.dryRun) =>
        /\ websites = last.before
        /\ \E real \in SyncWebsitesFromFile(last.file, FALSE, last.merge) :
              /\ real.stats.Created = last.stats.Created
              /\ real.stats.Updated = last.stats.Updated
        /\ \A real \in SyncWebsitesFromFile(last.file, FALSE, last.merge) :
              /\ real.stats.Created = last.stats.Created
              /\ real.stats.Updated = last.stats.Updated

\* a dry run in replace mode that reports one website to create, on a table
\* that a real run would change
C23_Witness ==
    /\ last.op = "SyncWebsitesFromFile" /\ last.dryRun /\ ~last.merge
    /\ last.stats.Created = 1
    /\ websites # {}
    /\ \A real \in SyncWebsitesFromFile(last.file, FALSE, last.merge) :
          real.table # websites

\* a dry run in merge mode that reports one website to update
C23_WitnessMerge ==
    /\ last.op = "SyncWebsitesFromFile" /\ last.dryRun /\ last.merge
    /\ last.stats.Updated = 1
    /\ \A real \in SyncWebsitesFromFile(last.file, FALSE, last.merge) :
          real.table # websites

\* C24: after a real (not dry-run) sync in merge mode, every website of the
\* file exists as a non-deleted row: a domain that had a non-deleted row (up
\* to letter case) has that row updated and is counted in Updated, a domain
\* that had none is inserted and counted in Created, no error is reported for
\* either, and the rows of the domains absent from the file are unchanged.
C24_MergeUpdatesOrAdds ==
    (last.op = "SyncWebsitesFromFile" /\ ~last.dryRun /\ last.merge) =>
        LET file == last.file
            K == 1..Len(file)
            Live(tbl, d) == {r \in tbl : ~r.deleted /\ Lower(r.domain) = Lower(d)}
            fresh == {Lower(file[k].domain) : k \in {j \in K : Live(last.before, file[j].domain) = {}}}
        IN /\ last.stats.Errors = <<>>
           /\ \A k \in K :
                 /\ Live(websites, file[k].domain) # {}
                 /\ \A r \in Live(websites, file[k].domain) : r.name = file[k].name
           /\ last.stats.Created = Cardinality(fresh)
           /\ last.stats.Created + last.stats.Updated = Len(file)
           /\ \A r \in last.before :
                 (\A k \in K : Lower(file[k].domain) # Lower(r.domain)) => r \in websites
           /\ \A r \in websites :
                 (\A k \in K : Lower(file[k].domain) # Lower(r.domain)) => r \in last.before

\* C25: once runStatsLive has started, the polling period is within [2,60]
\* seconds: the requested interval when that is within [2,60], and otherwise
\* (below 2, zero or negative, above 60) the default 5; an interval out of
\* range is never the reason the function returns an error.
C25_IntervalWithinBounds ==
    (pc # "idle" /\ last.op = "live") =>
        /\ interval >= 2 /\ interval <= 60
        /\ (last.interval >= 2 /\ last.interval <= 60) => interval = last.interval
        /\ (last.interval < 2 \/ last.interval > 60) => interval = 5
        /\ (pc = "returned" /\ last.db # "unreachable" /\ ret # "nil")
              => exitCause = "lookup"

\* the loop polls with the default period after a request of 61 seconds
C25_Witness ==
    /\ pc = "select" /\ ticker = "running"
    /\ last.op = "live" /\ last.interval = 61 /\ interval = 5

\* the loop polls with the requested period of 60 seconds
C25_WitnessInRange ==
    /\ pc = "select" /\ ticker = "running"
    /\ last.op = "live" /\ last.interval = 60 /\ interval = 60

\* C27: when the initial fetch of runStatsLive fails and leaves no snapshot,
\* nothing is rendered and the missing snapshot is not dereferenced: the
\* function does not panic, and it reaches the polling loop without having
\* written a snapshot.
C27_InitialFetchFailureHandled ==
    /\ pc # "panicked"
    /\ (pc = "select" /\ fetchCount = 1 /\ liveData = "nil") => renderCount = 0

\* C26: the AvgEngagement of the Overview is the mean, over the sessions that
\* have two or more pageviews in the window, of the time from the session's
\* first to its last pageview (in seconds); it is 0 when there is no such
\* session, and a session with one pageview does not lower it.
C26_OverviewEngagementExcludesBounces ==
    (last.op = "GetOverviewStats" /\ last.err = "nil" /\ "engagement" \notin last.fails) =>
        LET win == {i \in 1..Len(events) :
                      /\ events[i].site = last.site /\ events[i].etype = 1
                      /\ events[i].at >= now - last.days * 1440}
            Of(sid) == {i \in win : events[i].session = sid}
            two == {sid \in SessionIds : Cardinality(Of(sid)) >= 2}
            Span(sid) == LET T == {events[i].at : i \in Of(sid)}
                         IN 60 * ((CHOOSE t \in T : \A u \in T : t >= u)
                                  - (CHOOSE t \in T : \A u \in T : t <= u))
            avg == last.stats[1].AvgEngagement
        IN IF two = {} THEN avg.n = 0
           ELSE avg.n * Cardinality(two) = avg.d * SumOver(two, [sid \in two |-> Span(sid)])

(***************************************************************************)
(* GetLiveStats, sub-query by sub-query.  The five sub-queries run one     *)
(* after the other on the connection pool, outside any transaction, and    *)
(* each evaluates NOW() when it runs; rows are ingested and the clock      *)
(* advances in between.  The time unit of this specification is the        *)
(* minute.                                                                 *)
(***************************************************************************)
SnapStart == 100

\* line 652: the zero-valued LiveStatsData, no sub-query done yet
LiveSnapshotBegin ==
    /\ last.op \in {"none", "GetLiveStats"}
    /\ last.op = "GetLiveStats" => last.step = 5
    /\ last' = [op |-> "GetLiveStats", step |-> 0, err |-> "nil",
                data |-> [ActiveVisitorsNow |-> 0, PageviewsLastMinute |-> 0,
                          TopPageNow |-> <<>>, RecentReferrers |-> <<>>,
                          RecentEvents |-> 0]]
    /\ UNCHANGED <<liveVars, storeVars>>

\* the next sub-query of GetLiveStats (lines 656-691), on the store as it is now
LiveSnapshotStep ==
    /\ last.op = "GetLiveStats" /\ last.step < 5
    /\ \E tp \in getTopPageDetail(1, 0, TRUE), rr \in getRecentReferrers(1, TRUE) :
          last' = [last EXCEPT
             !.step = @ + 1,
             !.data = CASE last.step = 0 ->
                             [@ EXCEPT !.ActiveVisitorsNow =
                                 Cardinality(SessionsOf(RecentPageviews(1, 5)))]
                        [] last.step = 1 ->
                             [@ EXCEPT !.PageviewsLastMinute =
                                 Cardinality(RecentPageviews(1, 1))]
                        [] last.step = 2 -> [@ EXCEPT !.TopPageNow = tp]
                        [] last.step = 3 -> [@ EXCEPT !.RecentReferrers = rr]
                        [] OTHER ->
                             [@ EXCEPT !.RecentEvents =
                                 Cardinality(RecentPageviews(1, 5))]]
    /\ UNCHANGED <<liveVars, storeVars>>

\* a pageview is ingested while a snapshot may be under way
IngestPageview(session, path) ==
    /\ Len(events) < MaxEvents
    /\ events' = Append(events, EventRow(1, session, PageView, path, NULL, now))
    /\ UNCHANGED <<liveVars, websites, sessions, now, last>>

\* a minute passes
ClockAdvances ==
    /\ now < SnapStart + MaxElapsed
    /\ now' = now + 1
    /\ UNCHANGED <<liveVars, websites, sessions, events, last>>

\* the stores a snapshot starts on: rows of another website, and possibly a
\* pageview of five minutes ago
SnapEventTables ==
    {[i \in 1..4 |-> EventRow(2, 1, PageView, "/x", NULL, SnapStart)]
        \o <<EventRow(1, 1, PageView, "/", NULL, SnapStart - 5)>>,
     [i \in 1..4 |-> EventRow(2, 1, PageView, "/x", NULL, SnapStart)]
        \o <<EventRow(1, 1, PageView, "/", NULL, SnapStart - 1)>>,
     [i \in 1..5 |-> EventRow(2, 1, PageView, "/x", NULL, SnapStart)]}

InitSnapshot ==
    /\ LiveInit
    /\ websites = {WebsiteRow(1, "a.com", FALSE), WebsiteRow(2, "b.com", FALSE)}
    /\ sessions = SessionTable
    /\ events \in SnapEventTables
    /\ now = SnapStart
    /\ last = NoOp

NextSnapshot ==
    \/ LiveSnapshotBegin
    \/ LiveSnapshotStep
    \/ \E sid \in {1, 2}, path \in {"/", "/docs"} : IngestPageview(sid, path)
    \/ ClockAdvances

SpecSnapshot == InitSnapshot /\ [][NextSnapshot]_vars

\* C28: a snapshot GetLiveStats has completed is consistent with one instant
\* of the event log, whatever was ingested or aged out of the window while it
\* was taken: ActiveVisitorsNow, PageviewsLastMinute and TopPageNow.Pageviews
\* are at most RecentEvents, and TopPageNow is absent when RecentEvents is 0.
C28_SnapshotConsistent ==
    (last.op = "GetLiveStats" /\ last.step = 5) =>
        LET d == last.data
        IN /\ d.ActiveVisitorsNow <= d.RecentEvents
           /\ d.PageviewsLastMinute <= d.RecentEvents
           /\ d.TopPageNow # <<>> => d.TopPageNow[1].Pageviews <= d.RecentEvents
           /\ d.RecentEvents = 0 => d.TopPageNow = <<>>

(***************************************************************************)
(* Sentinel labels: a session table in which an attribute is NULL for one  *)
(* session and the literal 'Unknown' (as the classifier and the GeoIP      *)
(* lookup write it) for another.                                           *)
(***************************************************************************)
SentinelSessionTable ==
    << SessionRow("US", "NY", "New York", "Chrome", "desktop", "Linux"),
       SessionRow(NULL, NULL, NULL, NULL, "mobile", NULL),
       SessionRow("Unknown", NULL, NULL, "Unknown", "desktop", "Unknown") >>

InitLabels ==
    /\ LiveInit
    /\ websites = {WebsiteRow(1, "a.com", FALSE), WebsiteRow(2, "b.com", FALSE)}
    /\ sessions = SentinelSessionTable
    /\ events \in AggEventTables
    /\ now = AggNow
    /\ last = NoOp

NextLabels ==
    \/ InsertNext
    \/ \E dim \in SqlDimensions : CallGetBreakdown(dim, 7, 10, NoFilters)
    \/ \E dim \in CliDimensions : FetchBreakdownStats(dim, 7, 10)
    \/ CallGetMapData(7, NoFilters)
    \/ FetchOverview(1, 7, {})

SpecLabels == InitLabels /\ [][NextLabels]_vars

\* C29: in a breakdown or distribution result each name occurs once: the
\* sessions whose attribute is NULL and those whose attribute is the literal
\* 'Unknown' are one 'Unknown' group with the combined count, and the
\* name-keyed distribution maps of the Overview lose no count.
C29_SentinelGroupsMerged ==
    LET win == {i \in 1..Len(events) :
                    /\ events[i].site = 1 /\ events[i].etype = 1
                    /\ events[i].at >= now - 7 * 1440}
        Label(v) == IF v = NULL THEN "Unknown" ELSE v
        Once(rows, Name(_)) ==
            \A j, k \in 1..Len(rows) : Name(rows[j]) = Name(rows[k]) => j = k
    IN /\ (last.op = "get_breakdown" /\ last.err = "nil") =>
             LET NameOf(r) == r.name
             IN /\ Once(last.rows, NameOf)
                /\ last.dimension \in {"country", "browser"} =>
                      \A k \in 1..Len(last.rows) :
                         last.rows[k].count =
                            Cardinality({i \in win :
                               Label(BreakdownColumn(events[i], last.dimension))
                                  = last.rows[k].name})
       /\ (last.op = "GetBreakdownStats" /\ last.err = "nil") =>
             LET NameOf(r) == r.name
             IN /\ Once(last.items, NameOf)
                /\ \A k \in 1..Len(last.items) :
                      last.items[k].pageviews =
                         Cardinality({i \in win :
                            DimColumn(events[i], last.dimension) = last.items[k].name})
       /\ last.op = "get_map_data" =>
             LET NameOf(r) == r.country
             IN Once(last.rows, NameOf)
       /\ (last.op = "GetOverviewStats" /\ last.err = "nil") =>
             LET bd == last.stats[1].BrowserDistribution
                 cd == last.stats[1].CountryDistribution
                 SessionCount(S) == Cardinality({events[i].session : i \in S})
             IN /\ \A nm \in DOMAIN bd :
                      bd[nm] = SessionCount({i \in win :
                                  Label(sessions[events[i].session].browser) = nm})
                /\ \A nm \in DOMAIN cd :
                      cd[nm] = SessionCount({i \in win :
                                  Label(sessions[events[i].session].country) = nm})

(***************************************************************************)
(* Concurrent website administration.  CreateWebsite runs its check query  *)
(* and its INSERT as two statements on the pool, outside any transaction,  *)
(* so other calls run between them.  last holds, for every caller, the     *)
(* domain whose check has passed and whose INSERT is still to come.        *)
(***************************************************************************)
Callers == {1, 2}

AdminState(step, domain, err, pending) ==
    [op |-> "admin", step |-> step, domain |-> domain, err |-> err, pending |-> pending]

\* the table website as the specification describes it: no constraint makes
\* the INSERT of a second row for a domain fail
WebsiteInsertAllowed(tbl, domain) == TRUE

\* CreateWebsite, lines 172-190: validation and the check query
CreateWebsiteCheck(p, domain) ==
    /\ last.pending[p] = <<>>
    /\ IF validateDomain(domain) # "nil"
       THEN last' = AdminState("create", domain, validateDomain(domain), last.pending)
       ELSE IF \E r \in websites : Lower(r.domain) = Lower(domain) /\ ~r.deleted
       THEN last' = AdminState("create", domain, "website already exists", last.pending)
       ELSE last' = AdminState("check", domain, "nil",
                               [last.pending EXCEPT ![p] = <<domain>>])
    /\ UNCHANGED <<liveVars, storeVars>>

\* CreateWebsite, lines 199-225: the INSERT
CreateWebsiteInsert(p) ==
    /\ last.pending[p] # <<>>
    /\ Cardinality(websites) < MaxWebsites
    /\ LET domain == last.pending[p][1]
       IN IF WebsiteInsertAllowed(websites, domain)
          THEN /\ websites' = websites \cup
                     {WebsiteRecord(NewWebsiteID, domain, FALSE, domain)}
               /\ last' = AdminState("create", domain, "nil",
                                     [last.pending EXCEPT ![p] = <<>>])
          ELSE /\ websites' = websites
               /\ last' = AdminState("create", domain, "failed to create website",
                                     [last.pending EXCEPT ![p] = <<>>])
    /\ UNCHANGED <<liveVars, sessions, events, now>>

\* DeleteWebsite (313-335), whose lookup and UPDATE change one row
AdminDelete(domain) ==
    /\ \E res \in GetWebsiteByDomain(domain, <<>>, TRUE) :
          IF res.err # "nil"
          THEN /\ websites' = websites
               /\ last' = AdminState("delete", domain, res.err, last.pending)
          ELSE /\ websites' = {IF r.id = res.id THEN [r EXCEPT !.deleted = TRUE] ELSE r :
                                 r \in websites}
               /\ last' = AdminState("delete", domain, "nil", last.pending)
    /\ UNCHANGED <<liveVars, sessions, events, now>>

\* SyncWebsitesFromFile, not a dry run, in its transaction
AdminSync(syncFile, merge) ==
    /\ \E out \in SyncWebsitesFromFile(syncFile, FALSE, merge) :
          /\ Cardinality(out.table) <= MaxWebsites
          /\ websites' = out.table
          /\ last' = AdminState("sync", syncFile[1].domain, "nil", last.pending)
    /\ UNCHANGED <<liveVars, sessions, events, now>>

InitAdmin ==
    /\ LiveInit
    /\ websites = {}
    /\ sessions = SessionTable
    /\ events = <<>>
    /\ now = 0
    /\ last = AdminState("init", "", "nil", [p \in Callers |-> <<>>])

NextAdmin ==
    \/ \E p \in Callers, d \in AdminDomains : CreateWebsiteCheck(p, d)
    \/ \E p \in Callers : CreateWebsiteInsert(p)
    \/ \E d \in Domains : AdminDelete(d)
    \/ \E f \in SyncFiles, merge \in BOOLEAN : AdminSync(f, merge)

SpecAdmin == InitAdmin /\ [][NextAdmin]_vars

\* C30: after any interleaving of CreateWebsite, DeleteWebsite and
\* SyncWebsitesFromFile calls, two concurrent CreateWebsite calls for one
\* domain included, there is at most one non-deleted website for a domain up
\* to letter case, and a CreateWebsite that was refused left the table alone.
C30_OneLiveWebsitePerDomain ==
    /\ \A r1, r2 \in websites :
          (~r1.deleted /\ ~r2.deleted /\ Lower(r1.domain) = Lower(r2.domain)) => r1 = r2
    /\ (last.step = "create" /\ last.err = "nil")
          => \E r \in websites : ~r.deleted /\ r.domain = last.domain

=============================================================================
